---- MODULE Spec2Model ----
(***************************************************************************)
(* The memory engine of fluorite-mcp (memory-engine/fluorite-memory):      *)
(* the LRU hot cache (cache.rs), the compressed indexed store              *)
(* (storage.rs), the pattern analyzer (patterns.rs) and the orchestrator   *)
(* (lib.rs), over the chunk data model of chunk.rs.                        *)
(*                                                                         *)
(* Every operation is one action; the operators below compute an           *)
(* operation's effect on a component's state the way its code does, so     *)
(* that the orchestrator's actions can compose them.                       *)
(***************************************************************************)
EXTENDS Integers, Sequences, FiniteSets, TLC

(***************************************************************************)
(* Bounds of the model.                                                    *)
(***************************************************************************)
\* CacheConfig.max_chunks of the cache under test.
MaxChunks == 2
\* CacheConfig.max_size_bytes of the cache under test.
MaxSizeBytes == 20
\* Every statistics counter stops an operation that would push it past this.
MaxCount == 2
\* The clock (in units of the TTL's hour) stops here.
MaxTime == 2
\* HybridStorage's total_chunks counter stops store_chunk past this.
MaxStores == 3
\* The longest candidate list handed to the loop of find_similar.
MaxCandidates == 2
\* The calls that run concurrently.
MaxTasks == 2

\* CacheConfig::default().ttl, one hour, in hours.
TTL == 1

(***************************************************************************)
(* chunk.rs: the data model.                                               *)
(***************************************************************************)
\* Option<ChunkId>::None; a ChunkId is a positive number.
NoneId == 0

\* Option<String>::None.
NoString == ""

\* LearningChunk.embedding = None.
NoEmbedding == [some |-> FALSE, v |-> <<>>]

SomeEmbedding(v) == [some |-> TRUE, v |-> v]

\* A LearningChunk.  tags, file_path, dependencies, properties and
\* relationships are left at their defaults (empty) throughout.
LearningChunk(id, chunk_type, variant, text, len, framework, frameworks, patterns, embedding, last_accessed) ==
  [id |-> id,
   chunk_type |-> chunk_type,
   content |-> [variant |-> variant, language |-> "typescript", text |-> text,
                len |-> len, framework |-> framework],
   metadata |-> [frameworks |-> frameworks, patterns |-> patterns,
                 usage_count |-> 0, last_accessed |-> last_accessed],
   embedding |-> embedding,
   quality_score |-> 50]

\* std::mem::size_of::<LearningChunk>(), in the model's size unit.
SizeOfSelf == 1

RECURSIVE SumLen(_)
\* Sum of the lengths of the strings of a Vec<String>.
SumLen(strs) ==
  IF strs = <<>> THEN 0 ELSE Len(Head(strs)) + SumLen(Tail(strs))

\* LearningChunk::estimated_size.  content.len stands for the summed
\* lengths of the variant's strings (code + language + framework, ...).
EstimatedSize(chunk) ==
  SizeOfSelf + chunk.content.len
    + SumLen(chunk.metadata.frameworks) + SumLen(chunk.metadata.patterns)
    + Len(chunk.embedding.v) * 4

(***************************************************************************)
(* cache.rs: the LRU cache.  A cache is a record                           *)
(*   [chunks, head, tail, stats]                                           *)
(* chunks is the HashMap<ChunkId, CacheNode> (a function on the ids it     *)
(* holds), head and tail are Option<ChunkId>.  CacheNode.access_count is   *)
(* written and never read by any operation; it is not kept.                *)
(***************************************************************************)
\* CacheStats::default()
DefaultCacheStats ==
  [hits |-> 0, misses |-> 0, evictions |-> 0, current_size |-> 0,
   current_chunks |-> 0, memory_usage_bytes |-> 0,
   hit_ratio |-> [num |-> 0, den |-> 1]]

\* LruCache::new
NewCache ==
  [chunks |-> <<>>, head |-> NoneId, tail |-> NoneId, stats |-> DefaultCacheStats]

\* CacheNode::new, at time now.
CacheNode(chunk, now) ==
  [chunk_id |-> chunk.id, chunk |-> chunk, size |-> EstimatedSize(chunk),
   last_accessed |-> now, prev |-> NoneId, next |-> NoneId]

\* HashMap::contains_key
Contains(c, id) == id \in DOMAIN c.chunks

\* HashMap::remove of a key.
MapRemove(m, id) == [k \in DOMAIN m \ {id} |-> m[k]]

\* HashMap::insert of a key.
MapInsert(m, id, v) == [k \in DOMAIN m \cup {id} |-> IF k = id THEN v ELSE m[k]]

\* usize::saturating_sub
SaturatingSub(a, b) == IF a >= b THEN a - b ELSE 0

\* stats.hits as f64 / (stats.hits + stats.misses) as f64
HitRatio(stats) == [num |-> stats.hits, den |-> stats.hits + stats.misses]

\* LruCache::add_to_head
AddToHead(c, id) ==
  LET old_head == c.head
      c1 == [c EXCEPT !.head = id]
      c2 == IF id \in DOMAIN c1.chunks
              THEN [c1 EXCEPT !.chunks[id].next = old_head,
                              !.chunks[id].prev = NoneId]
              ELSE c1
  IN  IF old_head # NoneId
        THEN IF old_head \in DOMAIN c2.chunks
               THEN [c2 EXCEPT !.chunks[old_head].prev = id]
               ELSE c2
        ELSE [c2 EXCEPT !.tail = id]

\* LruCache::remove_from_list
RemoveFromList(c, id) ==
  IF id \notin DOMAIN c.chunks
    THEN c  \* Node not found
    ELSE
      LET prev_id == c.chunks[id].prev
          next_id == c.chunks[id].next
          c1 == IF prev_id # NoneId
                  THEN IF prev_id \in DOMAIN c.chunks
                         THEN [c EXCEPT !.chunks[prev_id].next = next_id]
                         ELSE c
                  ELSE [c EXCEPT !.head = next_id]
      IN  IF next_id # NoneId
            THEN IF next_id \in DOMAIN c1.chunks
                   THEN [c1 EXCEPT !.chunks[next_id].prev = prev_id]
                   ELSE c1
            ELSE [c1 EXCEPT !.tail = prev_id]

\* LruCache::move_to_head
MoveToHead(c, id) == AddToHead(RemoveFromList(c, id), id)

\* LruCache::remove: [c |-> the cache afterwards, removed |-> the result].
\* The node leaves the map first, and remove_from_list then looks it up.
Remove(c, id) ==
  IF id \in DOMAIN c.chunks
    THEN
      LET node == c.chunks[id]
          c1 == [c EXCEPT
                   !.chunks = MapRemove(c.chunks, id),
                   !.stats.current_chunks = SaturatingSub(@, 1),
                   !.stats.memory_usage_bytes = SaturatingSub(@, node.size)]
      IN  [c |-> RemoveFromList(c1, id), removed |-> TRUE]
    ELSE [c |-> c, removed |-> FALSE]

RECURSIVE EvictLoop(_, _, _)
\* The while loop of LruCache::evict_lru, entered with freed_bytes freed.
EvictLoop(c, freed_bytes, target_free_bytes) ==
  IF freed_bytes >= target_free_bytes
    THEN [c |-> c, freed |-> freed_bytes]
    ELSE
      IF c.tail # NoneId
        THEN
          LET chunk_id == c.tail
              node_size == IF chunk_id \in DOMAIN c.chunks
                             THEN c.chunks[chunk_id].size ELSE 0
              r == Remove(c, chunk_id)
          IN  IF r.removed
                THEN EvictLoop([r.c EXCEPT !.stats.evictions = @ + 1],
                               freed_bytes + node_size, target_free_bytes)
                ELSE [c |-> c, freed |-> freed_bytes]  \* Avoid infinite loop
        ELSE [c |-> c, freed |-> freed_bytes]          \* Cache is empty

\* LruCache::evict_lru: [c |-> the cache afterwards, freed |-> the result].
EvictLru(c, target_free_bytes) == EvictLoop(c, 0, target_free_bytes)

\* The body of evict_lru's while loop without its break on a failed remove.
EvictIterationNoBreak(c, freed_bytes, target_free_bytes) ==
  IF freed_bytes >= target_free_bytes THEN [c |-> c, freed |-> freed_bytes, done |-> TRUE]
  ELSE IF c.tail # NoneId
    THEN LET chunk_id == c.tail
             node_size == IF chunk_id \in DOMAIN c.chunks THEN c.chunks[chunk_id].size ELSE 0
             r == Remove(c, chunk_id)
         IN  IF r.removed
               THEN [c |-> [r.c EXCEPT !.stats.evictions = @ + 1],
                     freed |-> freed_bytes + node_size, done |-> FALSE]
               ELSE [c |-> c, freed |-> freed_bytes, done |-> FALSE]
    ELSE [c |-> c, freed |-> freed_bytes, done |-> TRUE]

\* One evaluation of the while condition of evict_lru and, when it holds, of
\* the loop body: [c, freed, done], done when the loop is left.
EvictIteration(c, freed_bytes, target_free_bytes) ==
  IF freed_bytes >= target_free_bytes THEN [c |-> c, freed |-> freed_bytes, done |-> TRUE]
  ELSE IF c.tail # NoneId
    THEN LET chunk_id == c.tail
             node_size == IF chunk_id \in DOMAIN c.chunks THEN c.chunks[chunk_id].size ELSE 0
             r == Remove(c, chunk_id)
         IN  IF r.removed
               THEN [c |-> [r.c EXCEPT !.stats.evictions = @ + 1],
                     freed |-> freed_bytes + node_size, done |-> FALSE]
               ELSE [c |-> c, freed |-> freed_bytes, done |-> TRUE]  \* Avoid infinite loop
    ELSE [c |-> c, freed |-> freed_bytes, done |-> TRUE]             \* Cache is empty

\* LruCache::enforce_limits that looks at the byte limit only.
EnforceLimitsBytesOnly(c) ==
  IF c.stats.memory_usage_bytes > MaxSizeBytes
    THEN EvictLru(c, c.stats.memory_usage_bytes - ((MaxSizeBytes * 80) \div 100)).c
    ELSE c

\* LruCache::enforce_limits
EnforceLimits(c) ==
  LET over_size == c.stats.memory_usage_bytes > MaxSizeBytes
      over_count == c.stats.current_chunks > MaxChunks
  IN  IF over_size \/ over_count
        THEN
          LET target_free_bytes ==
                IF over_size
                  THEN c.stats.memory_usage_bytes - ((MaxSizeBytes * 80) \div 100)
                  ELSE MaxSizeBytes \div 10
          IN  EvictLru(c, target_free_bytes).c
        ELSE c

\* LruCache::insert, at time now.
Insert(c, chunk_id, chunk, now) ==
  IF chunk_id \in DOMAIN c.chunks
    THEN MoveToHead([c EXCEPT !.chunks[chunk_id].chunk = chunk,
                              !.chunks[chunk_id].last_accessed = now],
                    chunk_id)
    ELSE
      LET new_node == CacheNode(chunk, now)
          c1 == [c EXCEPT
                   !.chunks = MapInsert(c.chunks, chunk_id, new_node),
                   !.stats.current_chunks = @ + 1,
                   !.stats.memory_usage_bytes = @ + new_node.size]
      IN  EnforceLimits(AddToHead(c1, chunk_id))

\* LruCache::get whose miss branch counts the miss and leaves hit_ratio as it was.
GetStaleRatio(c, chunk_id, now) ==
  IF chunk_id \in DOMAIN c.chunks
    THEN
      LET s1 == [c.stats EXCEPT !.hits = @ + 1]
          c1 == [c EXCEPT !.chunks[chunk_id].last_accessed = now,
                          !.stats = [s1 EXCEPT !.hit_ratio = HitRatio(s1)]]
      IN  [c |-> MoveToHead(c1, chunk_id), some |-> TRUE,
           chunk |-> c.chunks[chunk_id].chunk]
    ELSE
      [c |-> [c EXCEPT !.stats.misses = @ + 1], some |-> FALSE, chunk |-> <<>>]

\* LruCache::get, at time now: [c |-> the cache afterwards, some |-> hit,
\* chunk |-> the clone returned on a hit].
Get(c, chunk_id, now) ==
  IF chunk_id \in DOMAIN c.chunks
    THEN
      LET s1 == [c.stats EXCEPT !.hits = @ + 1]
          c1 == [c EXCEPT !.chunks[chunk_id].last_accessed = now,
                          !.stats = [s1 EXCEPT !.hit_ratio = HitRatio(s1)]]
      IN  [c |-> MoveToHead(c1, chunk_id), some |-> TRUE,
           chunk |-> c.chunks[chunk_id].chunk]
    ELSE
      LET s1 == [c.stats EXCEPT !.misses = @ + 1]
      IN  [c |-> [c EXCEPT !.stats = [s1 EXCEPT !.hit_ratio = HitRatio(s1)]],
           some |-> FALSE, chunk |-> <<>>]

\* LruCache::clear
Clear(c) ==
  [c EXCEPT !.chunks = <<>>, !.head = NoneId, !.tail = NoneId,
            !.stats = DefaultCacheStats]

RECURSIVE RemoveAll(_, _)
\* The for loop of LruCache::cleanup_expired over expired_ids.
RemoveAll(c, ids) ==
  IF ids = {} THEN c
  ELSE LET id == CHOOSE x \in ids : TRUE
       IN  RemoveAll(Remove(c, id).c, ids \ {id})

\* LruCache::cleanup_expired, at time now.
CleanupExpired(c, now) ==
  LET expired_ids == {id \in DOMAIN c.chunks :
                        now - c.chunks[id].last_accessed > TTL}
  IN  RemoveAll(c, expired_ids)

\* LruCache::get_memory_pressure, as the pair of ratios' numerators over a
\* common denominator MaxSizeBytes * MaxChunks, clamped to 1.
GetMemoryPressure(c) ==
  LET size_pressure == c.stats.memory_usage_bytes * MaxChunks
      count_pressure == c.stats.current_chunks * MaxSizeBytes
      m == IF size_pressure >= count_pressure THEN size_pressure ELSE count_pressure
      one == MaxSizeBytes * MaxChunks
  IN  IF m <= one THEN m ELSE one

(***************************************************************************)
(* cache.rs, one lock scope at a time.  A call in progress is a record     *)
(*   [pc, id, chunk, prev_id, next_id, ret]                                *)
(* pc names the lock scope the call runs next, prev_id and next_id are the *)
(* ids it read in an earlier scope (old_head is kept in prev_id), ret the  *)
(* scopes that follow the function it is in.  What a function does inside  *)
(* one scope of its guards is one step; between two scopes the other calls *)
(* run.                                                                    *)
(***************************************************************************)
\* No call in progress.
Idle ==
  [pc |-> "idle", id |-> NoneId, chunk |-> NoneId, prev_id |-> NoneId,
   next_id |-> NoneId, ret |-> <<>>]

\* The call of an operation of the cache, before its first lock scope.
CacheCall(op, id, chunk) == [Idle EXCEPT !.pc = op, !.id = id, !.chunk = chunk]

\* The return of the function the call is in: to the scope that follows the
\* function in its caller, or to the caller of the operation.
Continue(p) ==
  IF p.ret = <<>> THEN Idle ELSE [p EXCEPT !.pc = Head(p.ret), !.ret = Tail(p.ret)]

\* The next lock scope of the call p on the cache c at time t: [c, p].
CacheStep(c, p, t) ==
  CASE p.pc = "insert" ->
         IF p.id \in DOMAIN c.chunks
           THEN [c |-> [c EXCEPT !.chunks[p.id].chunk = p.chunk,
                                 !.chunks[p.id].last_accessed = t],
                 p |-> [p EXCEPT !.pc = "remove_from_list", !.ret = <<"add_to_head">>]]
           ELSE LET new_node == CacheNode(p.chunk, t)
                IN  [c |-> [c EXCEPT !.chunks = MapInsert(c.chunks, p.id, new_node),
                                     !.stats.current_chunks = @ + 1,
                                     !.stats.memory_usage_bytes = @ + new_node.size],
                     p |-> [p EXCEPT !.pc = "add_to_head", !.ret = <<"enforce_limits">>]]
    [] p.pc = "get" ->
         IF p.id \in DOMAIN c.chunks
           THEN LET s1 == [c.stats EXCEPT !.hits = @ + 1]
                IN  [c |-> [c EXCEPT !.chunks[p.id].last_accessed = t,
                                     !.stats = [s1 EXCEPT !.hit_ratio = HitRatio(s1)]],
                     p |-> [p EXCEPT !.pc = "remove_from_list", !.ret = <<"add_to_head">>]]
           ELSE LET s1 == [c.stats EXCEPT !.misses = @ + 1]
                IN  [c |-> [c EXCEPT !.stats = [s1 EXCEPT !.hit_ratio = HitRatio(s1)]],
                     p |-> Idle]
    [] p.pc = "remove" ->
         IF p.id \in DOMAIN c.chunks
           THEN [c |-> [c EXCEPT !.chunks = MapRemove(c.chunks, p.id),
                                 !.stats.current_chunks = SaturatingSub(@, 1),
                                 !.stats.memory_usage_bytes =
                                   SaturatingSub(@, c.chunks[p.id].size)],
                 p |-> [p EXCEPT !.pc = "remove_from_list"]]
           ELSE [c |-> c, p |-> Idle]
    [] p.pc = "clear" ->
         [c |-> [c EXCEPT !.chunks = <<>>], p |-> [p EXCEPT !.pc = "clear_head"]]
    [] p.pc = "clear_head" ->
         [c |-> [c EXCEPT !.head = NoneId], p |-> [p EXCEPT !.pc = "clear_tail"]]
    [] p.pc = "clear_tail" ->
         [c |-> [c EXCEPT !.tail = NoneId], p |-> [p EXCEPT !.pc = "clear_stats"]]
    [] p.pc = "clear_stats" ->
         [c |-> [c EXCEPT !.stats = DefaultCacheStats], p |-> Idle]
    [] p.pc = "remove_from_list" ->
         IF p.id \in DOMAIN c.chunks
           THEN [c |-> c,
                 p |-> [p EXCEPT !.pc = "remove_from_list_prev",
                                 !.prev_id = c.chunks[p.id].prev,
                                 !.next_id = c.chunks[p.id].next]]
           ELSE [c |-> c, p |-> Continue(p)]  \* Node not found
    [] p.pc = "remove_from_list_prev" ->
         [c |-> IF p.prev_id # NoneId
                  THEN IF p.prev_id \in DOMAIN c.chunks
                         THEN [c EXCEPT !.chunks[p.prev_id].next = p.next_id]
                         ELSE c
                  ELSE [c EXCEPT !.head = p.next_id],
          p |-> [p EXCEPT !.pc = "remove_from_list_next"]]
    [] p.pc = "remove_from_list_next" ->
         [c |-> IF p.next_id # NoneId
                  THEN IF p.next_id \in DOMAIN c.chunks
                         THEN [c EXCEPT !.chunks[p.next_id].prev = p.prev_id]
                         ELSE c
                  ELSE [c EXCEPT !.tail = p.prev_id],
          p |-> Continue(p)]
    [] p.pc = "add_to_head" ->
         [c |-> [c EXCEPT !.head = p.id],
          p |-> [p EXCEPT !.pc = "add_to_head_node", !.prev_id = c.head]]
    [] p.pc = "add_to_head_node" ->
         [c |-> IF p.id \in DOMAIN c.chunks
                  THEN [c EXCEPT !.chunks[p.id].next = p.prev_id,
                                 !.chunks[p.id].prev = NoneId]
                  ELSE c,
          p |-> [p EXCEPT !.pc = "add_to_head_old"]]
    [] p.pc = "add_to_head_old" ->
         [c |-> IF p.prev_id # NoneId
                  THEN IF p.prev_id \in DOMAIN c.chunks
                         THEN [c EXCEPT !.chunks[p.prev_id].prev = p.id]
                         ELSE c
                  ELSE [c EXCEPT !.tail = p.id],
          p |-> Continue(p)]
    [] p.pc = "enforce_limits" ->
         [c |-> EnforceLimits(c), p |-> Continue(p)]

(***************************************************************************)
(* storage.rs: the serialized, compressed form of a chunk.  A byte string  *)
(* is a sequence of numbers: bincode writes the fields in declaration      *)
(* order with no field names or type tags, an enum as its variant index, a *)
(* string or a vector behind its length.  A string counts as one number.   *)
(***************************************************************************)
\* The strings of the model, by number.
Strings ==
  <<"", "typescript", "node", "x", "react", "vue", "nextjs", "laravel",
    "export-function", "hook", "export", "const", "test", "useState", "json">>

StrCode(str) == CHOOSE i \in 1..Len(Strings) : Strings[i] = str

StrOf(code) == Strings[code]

\* enum ChunkType, by variant index.
ChunkTypes == <<"SpikeTemplate", "Pattern", "ApiIntegration", "Component">>

\* enum ChunkContent, by variant index.
ContentVariants == <<"Code", "Config", "Documentation", "Data", "Binary">>

IndexIn(names, name) == CHOOSE i \in 1..Len(names) : names[i] = name

\* A Vec<String>: its length, then its strings.
SerStrings(strs) == <<Len(strs)>> \o [i \in 1..Len(strs) |-> StrCode(strs[i])]

\* bincode::serialize(chunk)
Serialize(chunk) ==
  <<chunk.id, IndexIn(ChunkTypes, chunk.chunk_type),
    IndexIn(ContentVariants, chunk.content.variant),
    StrCode(chunk.content.language)>>
    \o SerStrings(chunk.content.text)
    \o <<chunk.content.len, StrCode(chunk.content.framework)>>
    \o SerStrings(chunk.metadata.frameworks)
    \o SerStrings(chunk.metadata.patterns)
    \o <<chunk.metadata.usage_count, chunk.metadata.last_accessed>>
    \o (IF chunk.embedding.some
          THEN <<1, Len(chunk.embedding.v)>> \o chunk.embedding.v
          ELSE <<0>>)
    \o <<chunk.quality_score>>

\* The strings of a Vec<String> read at position p of bytes.
DeStrings(bytes, p) ==
  [i \in 1..bytes[p] |-> StrOf(bytes[p + i])]

\* bincode::deserialize::<LearningChunk>(bytes): [ok, chunk].  The content
\* variant Data holds a serde_json::Value, which deserializes itself through
\* deserialize_any; bincode's format is not self-describing and answers
\* that call with an error.
Deserialize(bytes) ==
  IF bytes[3] = IndexIn(ContentVariants, "Data")
    THEN [ok |-> FALSE, chunk |-> <<>>]
    ELSE
      LET text == DeStrings(bytes, 5)
          p1 == 5 + Len(text) + 1          \* content.len
          frameworks == DeStrings(bytes, p1 + 2)
          p2 == p1 + 2 + Len(frameworks) + 1
          patterns == DeStrings(bytes, p2)
          p3 == p2 + Len(patterns) + 1     \* usage_count
          p4 == p3 + 2                     \* the embedding's Option tag
          emb == IF bytes[p4] = 1
                   THEN SomeEmbedding(SubSeq(bytes, p4 + 2, p4 + 1 + bytes[p4 + 1]))
                   ELSE NoEmbedding
          p5 == IF bytes[p4] = 1 THEN p4 + 2 + bytes[p4 + 1] ELSE p4 + 1
      IN  [ok |-> TRUE,
           chunk |->
             [id |-> bytes[1],
              chunk_type |-> ChunkTypes[bytes[2]],
              content |-> [variant |-> ContentVariants[bytes[3]],
                           language |-> StrOf(bytes[4]),
                           text |-> text,
                           len |-> bytes[p1],
                           framework |-> StrOf(bytes[p1 + 1])],
              metadata |-> [frameworks |-> frameworks, patterns |-> patterns,
                            usage_count |-> bytes[p3],
                            last_accessed |-> bytes[p3 + 1]],
              embedding |-> emb,
              quality_score |-> bytes[p5]]]

\* The length of the run of equal numbers that bytes starts with.
RunLength(bytes) ==
  Cardinality({k \in 1..Len(bytes) : \A i \in 1..k : bytes[i] = bytes[1]})

RECURSIVE Lz4Compress(_)
\* lz4_flex's block compression, as run lengths: <<run, value, run, value, ..>>.
Lz4Compress(bytes) ==
  IF bytes = <<>> THEN <<>>
  ELSE LET run == RunLength(bytes)
       IN  <<run, bytes[1]>> \o Lz4Compress(SubSeq(bytes, run + 1, Len(bytes)))

RECURSIVE Lz4Decompress(_)
\* lz4_flex's block decompression.
Lz4Decompress(block) ==
  IF Len(block) < 2 THEN <<>>
  ELSE [i \in 1..block[1] |-> block[2]]
         \o Lz4Decompress(SubSeq(block, 3, Len(block)))

\* lz4_flex::compress_prepend_size
CompressPrependSize(bytes) == <<Len(bytes)>> \o Lz4Compress(bytes)

\* lz4_flex::decompress_size_prepended: [ok, bytes].
DecompressSizePrepended(data) ==
  IF data = <<>> THEN [ok |-> FALSE, bytes |-> <<>>]
  ELSE LET bytes == Lz4Decompress(Tail(data))
       IN  IF Len(bytes) = Head(data)
             THEN [ok |-> TRUE, bytes |-> bytes]
             ELSE [ok |-> FALSE, bytes |-> <<>>]

(***************************************************************************)
(* storage.rs: the store.  A store is a record                             *)
(*   [chunks_tree, framework_index, pattern_index, metadata, metadata_tree]*)
(* chunks_tree maps an id (the key chunk:<id>) to the compressed record,   *)
(* an index tree maps a tag to its Vec<ChunkId>, metadata is the record    *)
(* in memory and metadata_tree the one persisted by save_metadata.         *)
(***************************************************************************)
\* load_or_create_metadata on an empty tree.
\* (The byte totals behind compression_ratio are written by store_chunk and
\* read by nothing but get_stats; they are left out.)
NewMetadata == [total_chunks |-> 0]

\* HybridStorage::new on an empty directory.
NewStorage ==
  [chunks_tree |-> <<>>, framework_index |-> <<>>, pattern_index |-> <<>>,
   metadata |-> NewMetadata, metadata_tree |-> NewMetadata]

\* Vec::contains
InSeq(s, x) == \E i \in 1..Len(s) : s[i] = x

\* The index list of a tag after add_to_framework_index / add_to_pattern_index.
AddToIndex(index, tag, chunk_id) ==
  LET chunk_ids == IF tag \in DOMAIN index THEN index[tag] ELSE <<>>
  IN  IF ~InSeq(chunk_ids, chunk_id)
        THEN MapInsert(index, tag, Append(chunk_ids, chunk_id))
        ELSE index

RECURSIVE AddToIndexes(_, _, _)
\* The loops of store_chunk over the chunk's tags.
AddToIndexes(index, tags, chunk_id) ==
  IF tags = <<>> THEN index
  ELSE AddToIndexes(AddToIndex(index, Head(tags), chunk_id), Tail(tags), chunk_id)

\* Vec::remove at the position of the first chunk_id.
RemoveFirst(chunk_ids, chunk_id) ==
  LET pos == CHOOSE i \in 1..Len(chunk_ids) :
               chunk_ids[i] = chunk_id /\ \A j \in 1..(i - 1) : chunk_ids[j] # chunk_id
  IN  SubSeq(chunk_ids, 1, pos - 1) \o SubSeq(chunk_ids, pos + 1, Len(chunk_ids))

\* One index tree after remove_from_indexes.
PurgeIndex(index, chunk_id) ==
  [tag \in DOMAIN index |->
     IF InSeq(index[tag], chunk_id) THEN RemoveFirst(index[tag], chunk_id)
                                    ELSE index[tag]]

\* HybridStorage::remove_from_indexes
RemoveFromIndexes(st, chunk_id) ==
  [st EXCEPT !.framework_index = PurgeIndex(@, chunk_id),
             !.pattern_index = PurgeIndex(@, chunk_id)]

\* HybridStorage::save_metadata
SaveMetadata(st) == [st EXCEPT !.metadata_tree = st.metadata]

\* HybridStorage::store_chunk: [ok, st].  fail names the tree write that
\* returns an error ("none", "insert": the chunks tree, "index": the first
\* index tree read).
StoreChunk(st, chunk, fail) ==
  LET serialized == Serialize(chunk)
      compressed == CompressPrependSize(serialized)
      st1 == [st EXCEPT !.chunks_tree = MapInsert(@, chunk.id, compressed)]
      st2 == [st1 EXCEPT
                !.framework_index = AddToIndexes(@, chunk.metadata.frameworks, chunk.id),
                !.pattern_index = AddToIndexes(@, chunk.metadata.patterns, chunk.id)]
      st3 == [st2 EXCEPT !.metadata.total_chunks = @ + 1]
  IN  IF fail = "insert" THEN [ok |-> FALSE, st |-> st]
      ELSE IF fail = "index"
                /\ chunk.metadata.frameworks \o chunk.metadata.patterns # <<>>
             THEN [ok |-> FALSE, st |-> st1]
             ELSE [ok |-> TRUE, st |-> SaveMetadata(st3)]

\* HybridStorage::get_chunk: Result<Option<LearningChunk>> as [ok, some, chunk].
GetChunk(st, chunk_id) ==
  IF chunk_id \in DOMAIN st.chunks_tree
    THEN
      LET decompressed == DecompressSizePrepended(st.chunks_tree[chunk_id])
      IN  IF ~decompressed.ok
            THEN [ok |-> FALSE, some |-> FALSE, chunk |-> <<>>]
            ELSE LET de == Deserialize(decompressed.bytes)
                 IN  IF de.ok THEN [ok |-> TRUE, some |-> TRUE, chunk |-> de.chunk]
                              ELSE [ok |-> FALSE, some |-> FALSE, chunk |-> <<>>]
    ELSE [ok |-> TRUE, some |-> FALSE, chunk |-> <<>>]

RECURSIVE ResolveIds(_, _)
\* The loop of get_chunks_by_framework / get_chunks_by_pattern over the
\* index list: [ok, chunks]; the first get_chunk error ends it.
ResolveIds(st, chunk_ids) ==
  IF chunk_ids = <<>> THEN [ok |-> TRUE, chunks |-> <<>>]
  ELSE LET r == GetChunk(st, Head(chunk_ids))
           rest == ResolveIds(st, Tail(chunk_ids))
       IN  IF ~r.ok THEN [ok |-> FALSE, chunks |-> <<>>]
           ELSE IF ~rest.ok THEN rest
           ELSE IF r.some THEN [ok |-> TRUE, chunks |-> <<r.chunk>> \o rest.chunks]
           ELSE rest

\* HybridStorage::get_chunks_by_framework: [ok, chunks].
GetChunksByFramework(st, framework) ==
  IF framework \in DOMAIN st.framework_index
    THEN ResolveIds(st, st.framework_index[framework])
    ELSE [ok |-> TRUE, chunks |-> <<>>]

\* HybridStorage::get_chunks_by_pattern: [ok, chunks].
GetChunksByPattern(st, pattern) ==
  IF pattern \in DOMAIN st.pattern_index
    THEN ResolveIds(st, st.pattern_index[pattern])
    ELSE [ok |-> TRUE, chunks |-> <<>>]

\* HybridStorage::update_chunk: [ok, st].
UpdateChunk(st, chunk, fail) ==
  StoreChunk(RemoveFromIndexes(st, chunk.id), chunk, fail)

\* HybridStorage::delete_chunk that ends between chunks_tree.remove and the
\* index writes of remove_from_indexes (an error of the index tree returned
\* through `?`, or the process stopping): the store it leaves.
DeleteChunkInterrupted(st, chunk_id) ==
  [st EXCEPT !.chunks_tree = MapRemove(@, chunk_id)]

\* A store_chunk call before its first tree write; tags are the tags its
\* index loop has still to add, chunk_ids the list add_to_*_index has read.
StoreCall(chunk) ==
  [pc |-> "store_chunk", chunk |-> chunk, tags |-> <<>>, chunk_ids |-> <<>>]

\* Where store_chunk goes after the framework loop (from = "framework") or
\* the pattern loop (from = "pattern") of the call p has run out of tags.
AfterIndexLoop(p, from) ==
  IF from = "framework" /\ p.chunk.metadata.patterns # <<>>
    THEN [p EXCEPT !.pc = "pattern_index_get", !.tags = p.chunk.metadata.patterns]
    ELSE [p EXCEPT !.pc = "metadata", !.tags = <<>>]

\* The next tree operation of the store_chunk call p on the store st:
\* [st, p].  Each sled get or insert and the metadata write lock is one
\* step; add_to_framework_index and add_to_pattern_index read the tag's
\* list with one tree operation and write it back with another.
StoreStep(st, p) ==
  CASE p.pc = "store_chunk" ->
         [st |-> [st EXCEPT !.chunks_tree =
                    MapInsert(@, p.chunk.id, CompressPrependSize(Serialize(p.chunk)))],
          p |-> IF p.chunk.metadata.frameworks # <<>>
                  THEN [p EXCEPT !.pc = "framework_index_get",
                                 !.tags = p.chunk.metadata.frameworks]
                  ELSE AfterIndexLoop(p, "framework")]
    [] p.pc = "framework_index_get" ->
         [st |-> st,
          p |-> [p EXCEPT !.pc = "framework_index_insert",
                          !.chunk_ids = IF Head(p.tags) \in DOMAIN st.framework_index
                                          THEN st.framework_index[Head(p.tags)]
                                          ELSE <<>>]]
    [] p.pc = "framework_index_insert" ->
         [st |-> IF ~InSeq(p.chunk_ids, p.chunk.id)
                   THEN [st EXCEPT !.framework_index =
                           MapInsert(@, Head(p.tags), Append(p.chunk_ids, p.chunk.id))]
                   ELSE st,
          p |-> IF Tail(p.tags) # <<>>
                  THEN [p EXCEPT !.pc = "framework_index_get", !.tags = Tail(p.tags),
                                 !.chunk_ids = <<>>]
                  ELSE AfterIndexLoop([p EXCEPT !.chunk_ids = <<>>], "framework")]
    [] p.pc = "pattern_index_get" ->
         [st |-> st,
          p |-> [p EXCEPT !.pc = "pattern_index_insert",
                          !.chunk_ids = IF Head(p.tags) \in DOMAIN st.pattern_index
                                          THEN st.pattern_index[Head(p.tags)]
                                          ELSE <<>>]]
    [] p.pc = "pattern_index_insert" ->
         [st |-> IF ~InSeq(p.chunk_ids, p.chunk.id)
                   THEN [st EXCEPT !.pattern_index =
                           MapInsert(@, Head(p.tags), Append(p.chunk_ids, p.chunk.id))]
                   ELSE st,
          p |-> IF Tail(p.tags) # <<>>
                  THEN [p EXCEPT !.pc = "pattern_index_get", !.tags = Tail(p.tags),
                                 !.chunk_ids = <<>>]
                  ELSE AfterIndexLoop([p EXCEPT !.chunk_ids = <<>>], "pattern")]
    [] p.pc = "metadata" ->
         [st |-> [st EXCEPT !.metadata.total_chunks = @ + 1],
          p |-> [p EXCEPT !.pc = "save_metadata"]]
    [] p.pc = "save_metadata" ->
         [st |-> SaveMetadata(st), p |-> Idle]

RECURSIVE KeysDescending(_)
\* chunks_tree.iter().rev(): the keys from the greatest down.
KeysDescending(ids) ==
  IF ids = {} THEN <<>>
  ELSE LET top == CHOOSE x \in ids : \A y \in ids : y <= x
       IN  <<top>> \o KeysDescending(ids \ {top})

RECURSIVE ScanRecent(_, _, _, _)
\* The for loop of get_recent_chunks over keys: it ends once limit chunks
\* are collected, and passes over a record that does not decode.
ScanRecent(st, keys, chunks, limit) ==
  IF keys = <<>> \/ Len(chunks) >= limit THEN chunks
  ELSE LET decompressed == DecompressSizePrepended(st.chunks_tree[Head(keys)])
           de == Deserialize(decompressed.bytes)
       IN  IF decompressed.ok /\ de.ok
             THEN ScanRecent(st, Tail(keys), Append(chunks, de.chunk), limit)
             ELSE ScanRecent(st, Tail(keys), chunks, limit)

RECURSIVE SortByLastAccessed(_)
\* chunks.sort_by(last_accessed descending), a stable sort.
SortByLastAccessed(chunks) ==
  IF chunks = <<>> THEN <<>>
  ELSE
    LET first == CHOOSE i \in 1..Len(chunks) :
                   /\ \A j \in 1..Len(chunks) :
                        chunks[j].metadata.last_accessed <= chunks[i].metadata.last_accessed
                   /\ \A j \in 1..(i - 1) :
                        chunks[j].metadata.last_accessed < chunks[i].metadata.last_accessed
    IN  <<chunks[first]>>
          \o SortByLastAccessed(SubSeq(chunks, 1, first - 1)
                                  \o SubSeq(chunks, first + 1, Len(chunks)))

\* get_recent_chunks without the sort by last_accessed.
GetRecentChunksUnsorted(st, limit) ==
  LET scanned == ScanRecent(st, KeysDescending(DOMAIN st.chunks_tree), <<>>, limit)
  IN  IF Len(scanned) > limit THEN SubSeq(scanned, 1, limit) ELSE scanned

\* HybridStorage::get_recent_chunks: the chunks returned.
GetRecentChunks(st, limit) ==
  LET scanned == ScanRecent(st, KeysDescending(DOMAIN st.chunks_tree), <<>>, limit)
  IN  IF Len(SortByLastAccessed(scanned)) > limit
        THEN SubSeq(SortByLastAccessed(scanned), 1, limit)
        ELSE SortByLastAccessed(scanned)

\* HybridStorage::delete_chunk: [st, existed].
DeleteChunk(st, chunk_id) ==
  LET existed == chunk_id \in DOMAIN st.chunks_tree
      st1 == [st EXCEPT !.chunks_tree = MapRemove(@, chunk_id)]
  IN  IF existed
        THEN [st |-> SaveMetadata(
                       [RemoveFromIndexes(st1, chunk_id) EXCEPT
                          !.metadata.total_chunks = SaturatingSub(@, 1)]),
              existed |-> TRUE]
        ELSE [st |-> st1, existed |-> FALSE]

(***************************************************************************)
(* patterns.rs: similarity.  A score is an exact fraction, kept as a       *)
(* whole number of 1/Scale; the weighted sum is kept in 1/(100 * Scale).   *)
(***************************************************************************)
\* A score of 1.0; every denominator of the model's chunks divides it.
Scale == 42 * 100

\* The weights of find_similar, in hundredths.
ContentWeight == 30

StructuralWeight == 30

SemanticWeight == 25

FrameworkWeight == 15

\* PatternConfig::default().similarity_threshold, in hundredths.
SimilarityThreshold == 60

\* The elements of a Vec, as a HashSet.
SetOf(s) == {s[i] : i \in 1..Len(s)}

\* intersection / union of two sets, 0 when both are empty.
Jaccard(a, b) ==
  IF Cardinality(a \cup b) = 0 THEN 0
  ELSE (Cardinality(a \cap b) * Scale) \div Cardinality(a \cup b)

\* The words of LearningChunk::get_searchable_text (the model's chunks carry
\* no tags and no file path).
SearchableWords(chunk) ==
  SetOf(chunk.metadata.frameworks) \cup SetOf(chunk.metadata.patterns)
    \cup (IF chunk.content.variant = "Binary" THEN {}
          ELSE SetOf(chunk.content.text))
    \cup {chunk.content.language}
    \cup (IF chunk.content.variant = "Code" /\ chunk.content.framework # NoString
            THEN {chunk.content.framework} ELSE {})

\* PatternAnalyzer::calculate_content_similarity
CalculateContentSimilarity(chunk1, chunk2) ==
  Jaccard(SearchableWords(chunk1), SearchableWords(chunk2))

\* PatternAnalyzer::calculate_structural_similarity
CalculateStructuralSimilarity(chunk1, chunk2) ==
  LET type_match == IF chunk1.chunk_type = chunk2.chunk_type THEN Scale ELSE 0
      pattern_overlap == Jaccard(SetOf(chunk1.metadata.patterns),
                                 SetOf(chunk2.metadata.patterns))
  IN  (type_match + pattern_overlap) \div 2

RECURSIVE DotProduct(_, _)
\* emb1.iter().zip(emb2.iter()).map(|(a, b)| a * b).sum()
DotProduct(emb1, emb2) ==
  IF emb1 = <<>> \/ emb2 = <<>> THEN 0
  ELSE Head(emb1) * Head(emb2) + DotProduct(Tail(emb1), Tail(emb2))

\* sqrt of the sum of squares; the model's embeddings have whole norms.
Norm(emb) ==
  CHOOSE r \in 0..DotProduct(emb, emb) : r * r = DotProduct(emb, emb)

\* The quotient a / b of a signed a by a positive b, exact for the model's
\* embeddings.
SignedDiv(a, b) == IF a >= 0 THEN a \div b ELSE 0 - ((0 - a) \div b)

\* PatternAnalyzer::calculate_semantic_similarity
CalculateSemanticSimilarity(chunk1, chunk2) ==
  IF chunk1.embedding.some /\ chunk2.embedding.some
    THEN
      LET dot_product == DotProduct(chunk1.embedding.v, chunk2.embedding.v)
          norm1 == Norm(chunk1.embedding.v)
          norm2 == Norm(chunk2.embedding.v)
      IN  IF norm1 > 0 /\ norm2 > 0
            THEN SignedDiv(dot_product * Scale, norm1 * norm2)
            ELSE 0
    ELSE CalculateContentSimilarity(chunk1, chunk2)

\* PatternAnalyzer::calculate_framework_similarity
CalculateFrameworkSimilarity(chunk1, chunk2) ==
  Jaccard(SetOf(chunk1.metadata.frameworks), SetOf(chunk2.metadata.frameworks))

\* The weighted sum of find_similar, in 1/(100 * Scale).
OverallSimilarity(content, structural, semantic, framework) ==
  content * ContentWeight + structural * StructuralWeight
    + semantic * SemanticWeight + framework * FrameworkWeight

\* f32::max
Max(a, b) == IF a >= b THEN a ELSE b

\* PatternAnalyzer::determine_primary_similarity_type
DeterminePrimarySimilarityType(content, structural, semantic, framework) ==
  LET max_score == Max(Max(Max(content, structural), semantic), framework)
  IN  IF semantic = max_score THEN "Semantic"
      ELSE IF structural = max_score THEN "Structural"
      ELSE IF framework = max_score THEN "Framework"
      ELSE "Content"

\* The four scores of a pair and their weighted sum.
Scores(chunk1, chunk2) ==
  LET content == CalculateContentSimilarity(chunk1, chunk2)
      structural == CalculateStructuralSimilarity(chunk1, chunk2)
      semantic == CalculateSemanticSimilarity(chunk1, chunk2)
      framework == CalculateFrameworkSimilarity(chunk1, chunk2)
  IN  [content |-> content, structural |-> structural, semantic |-> semantic,
       framework |-> framework,
       overall |-> OverallSimilarity(content, structural, semantic, framework)]

\* One turn of a loop that compares every candidate, the chunk itself
\* included.
PushIfSimilarNoSkip(similarities, chunk, candidate_chunk) ==
  LET sc == Scores(chunk, candidate_chunk)
  IN  IF sc.overall >= SimilarityThreshold * Scale
        THEN Append(similarities,
                    [chunk |-> candidate_chunk, score |-> sc.overall,
                     similarity_type |->
                       DeterminePrimarySimilarityType(sc.content, sc.structural,
                                                      sc.semantic, sc.framework)])
        ELSE similarities

\* One turn of the loop of find_similar: the matches after candidate_chunk.
PushIfSimilar(similarities, chunk, candidate_chunk) ==
  IF candidate_chunk.id = chunk.id THEN similarities
  ELSE
    LET sc == Scores(chunk, candidate_chunk)
    IN  IF sc.overall >= SimilarityThreshold * Scale
          THEN Append(similarities,
                      [chunk |-> candidate_chunk, score |-> sc.overall,
                       similarity_type |->
                         DeterminePrimarySimilarityType(sc.content, sc.structural,
                                                        sc.semantic, sc.framework)])
          ELSE similarities

RECURSIVE CollectSimilar(_, _, _)
\* The loop of find_similar over the candidates.
CollectSimilar(similarities, chunk, candidates) ==
  IF candidates = <<>> THEN similarities
  ELSE CollectSimilar(PushIfSimilar(similarities, chunk, Head(candidates)),
                      chunk, Tail(candidates))

RECURSIVE SortByScore(_)
\* similarities.sort_by(score descending), a stable sort.
SortByScore(similarities) ==
  IF similarities = <<>> THEN <<>>
  ELSE
    LET first == CHOOSE i \in 1..Len(similarities) :
                   /\ \A j \in 1..Len(similarities) :
                        similarities[j].score <= similarities[i].score
                   /\ \A j \in 1..(i - 1) :
                        similarities[j].score < similarities[i].score
    IN  <<similarities[first]>>
          \o SortByScore(SubSeq(similarities, 1, first - 1)
                           \o SubSeq(similarities, first + 1, Len(similarities)))

\* Vec::truncate
Truncate(s, limit) == IF Len(s) > limit THEN SubSeq(s, 1, limit) ELSE s

\* find_similar from the candidates on: the loop, the sort and the cut.
FindSimilarAmong(chunk, candidates, limit) ==
  Truncate(SortByScore(CollectSimilar(<<>>, chunk, candidates)), limit)

\* PatternAnalyzer::get_similarity_candidates
GetSimilarityCandidates(chunk) == <<>>

\* PatternAnalyzer::find_similar: the matches returned.
FindSimilar(chunk, limit) ==
  FindSimilarAmong(chunk, GetSimilarityCandidates(chunk), limit)

(***************************************************************************)
(* patterns.rs and search.rs as the orchestrator drives them, and lib.rs:  *)
(* the engine.  The engine's own state is a record                         *)
(*   [enable_search, search_docs, analyzer, stats]                         *)
(* next to its cache and its store.                                        *)
(***************************************************************************)
\* PatternAnalyzer::new: the relationship graph's framework_graph and
\* PatternStats.total_patterns.
NewAnalyzer == [framework_graph |-> <<>>, total_patterns |-> 0]

\* FrameworkRelations with nothing in it.
NewFrameworkRelations == [primary_chunks |-> <<>>, common_combinations |-> <<>>]

RECURSIVE PushPrimary(_, _, _)
\* The first loop of update_relationship_graph.
PushPrimary(graph, frameworks, chunk_id) ==
  IF frameworks = <<>> THEN graph
  ELSE
    LET framework == Head(frameworks)
        relations == IF framework \in DOMAIN graph THEN graph[framework]
                                                   ELSE NewFrameworkRelations
    IN  PushPrimary(
          MapInsert(graph, framework,
                    [relations EXCEPT !.primary_chunks = Append(@, chunk_id)]),
          Tail(frameworks), chunk_id)

RECURSIVE PushCombination(_, _, _)
\* The second loop of update_relationship_graph.
PushCombination(graph, frameworks, combination) ==
  IF frameworks = <<>> THEN graph
  ELSE PushCombination(
         IF Head(frameworks) \in DOMAIN graph
           THEN [graph EXCEPT ![Head(frameworks)].common_combinations =
                                Append(@, combination)]
           ELSE graph,
         Tail(frameworks), combination)

\* PatternAnalyzer::update_relationship_graph
UpdateRelationshipGraph(graph, chunk) ==
  LET g1 == PushPrimary(graph, chunk.metadata.frameworks, chunk.id)
  IN  IF Len(chunk.metadata.frameworks) > 1
        THEN PushCombination(g1, chunk.metadata.frameworks,
                             [frameworks |-> chunk.metadata.frameworks,
                              chunks |-> <<chunk.id>>])
        ELSE g1

\* PatternAnalyzer::analyze_chunk (the pattern tables it also fills are keyed
\* by fresh uuids and read by no operation of the engine; they are left out).
AnalyzeChunk(an, chunk) ==
  [an EXCEPT !.framework_graph = UpdateRelationshipGraph(@, chunk),
             !.total_patterns = @ + 1]

\* PatternAnalyzer::rebuild_relationships
RebuildRelationships(an) == [an EXCEPT !.framework_graph = <<>>]

\* PatternAnalyzer::get_nextjs_laravel_patterns, as the set of combinations.
GetNextjsLaravelPatterns(an) ==
  {combo \in UNION {SetOf(an.framework_graph[f].common_combinations) :
                      f \in DOMAIN an.framework_graph} :
     InSeq(combo.frameworks, "nextjs") /\ InSeq(combo.frameworks, "laravel")}

\* EngineStats::default()
DefaultEngineStats ==
  [total_chunks |-> 0, cache_hits |-> 0, cache_misses |-> 0, disk_reads |-> 0,
   disk_writes |-> 0, search_queries |-> 0]

\* MemoryEngine::new over an empty directory.
NewEngine(enable_search) ==
  [enable_search |-> enable_search, search_docs |-> <<>>,
   analyzer |-> NewAnalyzer, stats |-> DefaultEngineStats]

\* SearchEngine::index_chunk: one more document for the chunk's id in the
\* index writer.
IndexChunk(search_docs, chunk) == Append(search_docs, chunk.id)

\* The error of StoreChunk that an engine-level failure stands for.
StorageFailure(fail) == IF fail \in {"insert", "index"} THEN fail ELSE "none"

\* MemoryEngine::store_chunk that fills the cache before it writes the store.
EngineStoreChunkCacheFirst(eng, st, c, chunk, fail, t) ==
  LET c1 == Insert(c, chunk.id, chunk, t)
      r == StoreChunk(st, chunk, StorageFailure(fail))
      eng1 == IF eng.enable_search
                THEN [eng EXCEPT !.search_docs = IndexChunk(@, chunk)]
                ELSE eng
      eng2 == [eng1 EXCEPT !.analyzer = AnalyzeChunk(@, chunk),
                           !.stats.total_chunks = @ + 1,
                           !.stats.disk_writes = @ + 1]
  IN  IF ~r.ok
        THEN [ok |-> FALSE, err |-> "Failed to store chunk to disk", id |-> NoneId,
              st |-> r.st, c |-> c1, eng |-> eng]
      ELSE IF eng.enable_search /\ fail = "search"
        THEN [ok |-> FALSE, err |-> "Failed to index chunk for search", id |-> NoneId,
              st |-> r.st, c |-> c1, eng |-> eng]
        ELSE [ok |-> TRUE, err |-> NoString, id |-> chunk.id,
              st |-> r.st, c |-> c1, eng |-> eng2]

\* MemoryEngine::store_chunk at time t: [ok, err, id, st, c, eng], id being
\* the ChunkId returned with Ok and err the context of the error returned
\* with Err.  fail names the
\* step that returns an error: "none", a tree write of the store ("insert",
\* "index") or the search index's add_document ("search").
EngineStoreChunk(eng, st, c, chunk, fail, t) ==
  LET r == StoreChunk(st, chunk, StorageFailure(fail))
      c1 == Insert(c, chunk.id, chunk, t)
      eng1 == IF eng.enable_search
                THEN [eng EXCEPT !.search_docs = IndexChunk(@, chunk)]
                ELSE eng
      eng2 == [eng1 EXCEPT !.analyzer = AnalyzeChunk(@, chunk),
                           !.stats.total_chunks = @ + 1,
                           !.stats.disk_writes = @ + 1]
      chunk_id == chunk.id
  IN  IF ~r.ok
        THEN [ok |-> FALSE, err |-> "Failed to store chunk to disk", id |-> NoneId,
              st |-> r.st, c |-> c, eng |-> eng]
      ELSE IF eng.enable_search /\ fail = "search"
        THEN [ok |-> FALSE, err |-> "Failed to index chunk for search", id |-> NoneId,
              st |-> r.st, c |-> c1, eng |-> eng]
        ELSE [ok |-> TRUE, err |-> NoString, id |-> chunk_id,
              st |-> r.st, c |-> c1, eng |-> eng2]

\* An engine.store_chunk(chunk) call before its first step.
EngineStoreCall(chunk) == [pc |-> "store_chunk", chunk |-> chunk]

\* The next awaited call (or the closing stats block) of the
\* MemoryEngine::store_chunk call p at time t: [eng, st, c, p].  No lock
\* spans two of them, so the steps of concurrent calls interleave here.
EngineStoreStep(eng, st, c, p, t) ==
  CASE p.pc = "store_chunk" ->
         [eng |-> eng, st |-> StoreChunk(st, p.chunk, "none").st, c |-> c,
          p |-> [p EXCEPT !.pc = "cache_insert"]]
    [] p.pc = "cache_insert" ->
         [eng |-> eng, st |-> st, c |-> Insert(c, p.chunk.id, p.chunk, t),
          p |-> [p EXCEPT !.pc = IF eng.enable_search THEN "index_chunk"
                                                      ELSE "analyze_chunk"]]
    [] p.pc = "index_chunk" ->
         [eng |-> [eng EXCEPT !.search_docs = IndexChunk(@, p.chunk)],
          st |-> st, c |-> c, p |-> [p EXCEPT !.pc = "analyze_chunk"]]
    [] p.pc = "analyze_chunk" ->
         [eng |-> [eng EXCEPT !.analyzer = AnalyzeChunk(@, p.chunk)],
          st |-> st, c |-> c, p |-> [p EXCEPT !.pc = "stats"]]
    [] p.pc = "stats" ->
         [eng |-> [eng EXCEPT !.stats.total_chunks = @ + 1,
                              !.stats.disk_writes = @ + 1],
          st |-> st, c |-> c, p |-> Idle]

\* MemoryEngine::get_chunk that asks the store first and the cache only for
\* what the store holds.
EngineGetChunkStoreFirst(eng, st, c, chunk_id, t) ==
  LET r == GetChunk(st, chunk_id)
      hit == Get(c, chunk_id, t)
  IN  IF ~r.ok
        THEN [ok |-> FALSE, some |-> FALSE, chunk |-> <<>>, c |-> c, eng |-> eng]
      ELSE IF ~r.some
        THEN [ok |-> TRUE, some |-> FALSE, chunk |-> <<>>, c |-> c, eng |-> eng]
      ELSE IF hit.some
        THEN [ok |-> TRUE, some |-> TRUE, chunk |-> hit.chunk, c |-> hit.c,
              eng |-> [eng EXCEPT !.stats.cache_hits = @ + 1]]
        ELSE [ok |-> TRUE, some |-> TRUE, chunk |-> r.chunk,
              c |-> Insert(hit.c, chunk_id, r.chunk, t),
              eng |-> [eng EXCEPT !.stats.cache_misses = @ + 1,
                                  !.stats.disk_reads = @ + 1]]

\* MemoryEngine::get_chunk at time t: [ok, some, chunk, c, eng].
EngineGetChunk(eng, st, c, chunk_id, t) ==
  LET hit == Get(c, chunk_id, t)
      r == GetChunk(st, chunk_id)
  IN  IF hit.some
        THEN [ok |-> TRUE, some |-> TRUE, chunk |-> hit.chunk, c |-> hit.c,
              eng |-> [eng EXCEPT !.stats.cache_hits = @ + 1]]
        ELSE IF ~r.ok
          THEN [ok |-> FALSE, some |-> FALSE, chunk |-> <<>>, c |-> hit.c, eng |-> eng]
        ELSE IF r.some
          THEN [ok |-> TRUE, some |-> TRUE, chunk |-> r.chunk,
                c |-> Insert(hit.c, chunk_id, r.chunk, t),
                eng |-> [eng EXCEPT !.stats.cache_misses = @ + 1,
                                    !.stats.disk_reads = @ + 1]]
          ELSE [ok |-> TRUE, some |-> FALSE, chunk |-> <<>>, c |-> hit.c, eng |-> eng]

RECURSIVE InsertAll(_, _, _)
\* HybridStorage::compact: the flush leaves the trees as they are; the
\* metadata record is persisted.
Compact(st) == SaveMetadata(st)

\* MemoryEngine::optimize: [st, eng].  SearchEngine::optimize waits for the
\* merges and leaves the documents as they are.
Optimize(eng, st) ==
  [st |-> Compact(st),
   eng |-> [eng EXCEPT !.analyzer = RebuildRelationships(@)]]

\* The for loop of warmup_cache over recent_chunks.
InsertAll(c, chunks, t) ==
  IF chunks = <<>> THEN c
  ELSE InsertAll(Insert(c, Head(chunks).id, Head(chunks), t), Tail(chunks), t)

\* MemoryEngine::warmup_cache at time t: the cache afterwards.
WarmupCache(st, c, t) ==
  InsertAll(c, GetRecentChunks(st, MaxChunks \div 2), t)

\* SearchEngine::search: [ok, err, chunks].  The reader sees the documents
\* of the last commit; the engine adds documents to the writer (index_chunk)
\* and never commits, so a search through the engine sees none of them.  fail
\* names the step that returns an error: "none" or the query parser ("parse").
Search(search_docs, query, limit, fail) ==
  IF fail = "parse"
    THEN [ok |-> FALSE, err |-> "Failed to parse search query", chunks |-> <<>>]
    ELSE [ok |-> TRUE, err |-> NoString, chunks |-> <<>>]

\* MemoryEngine::search_chunks that counts the query before it looks for the
\* search engine.
EngineSearchChunksCountFirst(eng, query, limit, fail) ==
  LET eng1 == [eng EXCEPT !.stats.search_queries = @ + 1]
      r == Search(eng.search_docs, query, limit, fail)
  IN  IF eng.enable_search
        THEN [ok |-> r.ok, err |-> r.err, chunks |-> r.chunks, eng |-> eng1]
        ELSE [ok |-> FALSE, err |-> "Search engine not enabled", chunks |-> <<>>,
              eng |-> eng1]

\* MemoryEngine::search_chunks: [ok, err, chunks, eng].
EngineSearchChunks(eng, query, limit, fail) ==
  LET eng1 == [eng EXCEPT !.stats.search_queries = @ + 1]
      r == Search(eng.search_docs, query, limit, fail)
  IN  IF eng.enable_search
        THEN [ok |-> r.ok, err |-> r.err, chunks |-> r.chunks, eng |-> eng1]
        ELSE [ok |-> FALSE, err |-> "Search engine not enabled", chunks |-> <<>>,
              eng |-> eng]

\* MemoryEngine::find_similar: the matches (the call also counts itself in
\* PatternStats.similarity_calculations, which nothing reads).
EngineFindSimilar(eng, chunk, limit) == FindSimilar(chunk, limit)

(***************************************************************************)
(* State.                                                                  *)
(***************************************************************************)
VARIABLES
  cache,      \* the LruCache: [chunks, head, tail, stats]
  now,        \* the clock read by Instant::now(), in hours
  last,       \* the last operation and what it returned: [op, ok]
  touched,    \* history: the ids touched (inserted or hit), latest first
  inserted,   \* history: the distinct ids inserted so far
  storage,    \* the HybridStorage: [chunks_tree, framework_index, ..]
  sres,       \* the last storage call and its result: [op, arg, ok, chunks]
  durable,    \* history: per id, the chunk of its last tree write and
              \* whether that store_chunk returned Ok
  stored,     \* history: the chunks store_chunk returned Ok for
  engine,     \* the MemoryEngine's own state: [enable_search, search_docs, ..]
  eres,       \* the last engine call and its result: [op, arg, ok, err, id, chunks]
  accepted,   \* history: per id, the chunk of the last engine store_chunk
              \* that returned Ok
  simres,     \* the last similarity computation and its result
  stack,      \* the async call stack of the running task: frames [fn, pc],
              \* the innermost last
  held,       \* the synchronous lock guards the running task holds
  evict,      \* the evict_lru call in progress: [running, target, freed]
  procs       \* the concurrent calls in progress, one per task

cacheVars == <<cache, now, last>>

lruHist == <<touched, inserted>>

storeVars == <<storage, sres, durable, stored>>

engineVars == <<engine, eres, accepted>>

taskVars == <<stack, held, evict, procs>>

\* What the cache's operations leave alone.
beyondCache == <<storeVars, engineVars, simres, taskVars>>

vars == <<cacheVars, lruHist, storeVars, engineVars, simres, taskVars>>

\* cache.rs tests: create_test_chunk(id, size_multiplier); content.len is the
\* code's length in units of 100 bytes.
create_test_chunk(id, size_multiplier) ==
  LearningChunk(id, "Pattern", "Code", <<"x">>, size_multiplier, "node", <<>>, <<>>, NoEmbedding, 0)

\* The ids and the chunks the cache is driven with: every id with a small
\* body, one of them also with a body that alone exceeds the byte limit.
CacheIds == {1, 2, 3}

CacheChunks ==
  {create_test_chunk(id, 0) : id \in CacheIds} \cup {create_test_chunk(1, 20)}

NoOp == [op |-> "none", ok |-> FALSE]

CacheInit ==
  /\ cache = NewCache
  /\ now = 0
  /\ last = NoOp
  /\ touched = <<>>
  /\ inserted = {}

\* storage.rs tests: create_test_chunk(id, framework)
create_storage_test_chunk(id, framework) ==
  LearningChunk(id, "Pattern", "Code", <<"export", "const", "test">>, 0, framework, <<framework>>, <<"export-function">>, NoEmbedding, 0)

\* A chunk whose content is ChunkContent::Data (a JSON value), as the
\* learner builds them.
create_data_chunk(id, framework) ==
  [LearningChunk(id, "Pattern", "Data", <<"x">>, 0, NoString, <<framework>>, <<>>, NoEmbedding, 0)
     EXCEPT !.content.language = "json"]

\* The chunks the store is driven with: id 1 under two tag sets, id 2 with
\* Code and with Data content.
StorageChunks ==
  {create_storage_test_chunk(1, "react"), create_storage_test_chunk(1, "vue"),
   create_storage_test_chunk(2, "react"), create_data_chunk(2, "react")}

StorageIds == {1, 2}

StorageFrameworks == {"react", "vue"}

\* The tree writes that can return an error to store_chunk.
StoreFailures == {"none", "insert", "index"}

StorageInit ==
  /\ storage = NewStorage
  /\ sres = [op |-> "none", arg |-> NoneId, ok |-> TRUE, chunks |-> <<>>]
  /\ durable = <<>>
  /\ stored = {}

\* lib.rs tests: the chunk of test_memory_engine_basic_operations, with short
\* tags; text is the code's words.
create_engine_test_chunk(id, text) ==
  LearningChunk(id, "Pattern", "Code", text, 0, "vue", <<"vue">>, <<"hook">>, NoEmbedding, 0)

\* The chunks the engine is driven with: id 1 with two bodies, id 2 with a
\* body one word away from id 1's, id 3 with Data content.
EngineChunks ==
  {create_engine_test_chunk(1, <<"export", "const", "test">>),
   create_engine_test_chunk(1, <<"export", "const", "useState">>),
   create_engine_test_chunk(2, <<"export", "const", "test", "x">>),
   create_data_chunk(3, "vue")}

EngineIds == {1, 2, 3}

\* The steps of the engine's store_chunk that can return an error.
EngineFailures == {"none", "insert", "search"}

EngineInit ==
  /\ engine = NewEngine(TRUE)
  /\ eres = [op |-> "none", arg |-> NoneId, ok |-> TRUE, err |-> NoString, id |-> NoneId,
             chunks |-> <<>>]
  /\ accepted = <<>>

\* The tasks that call concurrently.
Tasks == 1..MaxTasks

\* No evict_lru call is in progress.
NotEvicting == [running |-> FALSE, target |-> 0, freed |-> 0]

\* No operation in flight.
TaskInit ==
  /\ stack = <<>>
  /\ held = {}
  /\ evict = NotEvicting
  /\ procs = [task \in Tasks |-> Idle]

Init ==
  /\ CacheInit /\ StorageInit /\ EngineInit /\ TaskInit
  /\ simres = [op |-> "none"]

\* The statistics counters stay within the model's bound.
CountersWithin(c) ==
  /\ c.stats.hits <= MaxCount
  /\ c.stats.misses <= MaxCount
  /\ c.stats.evictions <= MaxCount

\* cache.insert(chunk.id, chunk)
CacheInsert(chunk) ==
  /\ cache' = Insert(cache, chunk.id, chunk, now)
  /\ CountersWithin(cache')
  /\ last' = [op |-> "insert", ok |-> TRUE]
  /\ UNCHANGED now

\* cache.get(id)
CacheGet(id) ==
  /\ cache' = Get(cache, id, now).c
  /\ CountersWithin(cache')
  /\ last' = [op |-> "get", ok |-> Get(cache, id, now).some]
  /\ UNCHANGED now

\* cache.remove(id)
CacheRemove(id) ==
  /\ cache' = Remove(cache, id).c
  /\ last' = [op |-> "remove", ok |-> Remove(cache, id).removed]
  /\ UNCHANGED now

\* cache.clear()
CacheClear ==
  /\ cache' = Clear(cache)
  /\ last' = [op |-> "clear", ok |-> TRUE]
  /\ UNCHANGED now

\* cache.evict_lru(target)
CacheEvictLru(target) ==
  /\ cache' = EvictLru(cache, target).c
  /\ CountersWithin(cache')
  /\ last' = [op |-> "evict_lru", ok |-> EvictLru(cache, target).freed >= target]
  /\ UNCHANGED now

\* cache.cleanup_expired()
CacheCleanupExpired ==
  /\ cache' = CleanupExpired(cache, now)
  /\ last' = [op |-> "cleanup_expired", ok |-> TRUE]
  /\ UNCHANGED now

\* Time passes.
Tick ==
  /\ now < MaxTime
  /\ now' = now + 1
  /\ UNCHANGED <<cache, last>>

CacheNext ==
  \/ \E chunk \in CacheChunks : CacheInsert(chunk) /\ UNCHANGED <<lruHist, beyondCache>>
  \/ \E id \in CacheIds : CacheGet(id) /\ UNCHANGED <<lruHist, beyondCache>>
  \/ \E id \in CacheIds : CacheRemove(id) /\ UNCHANGED <<lruHist, beyondCache>>
  \/ CacheClear /\ UNCHANGED <<lruHist, beyondCache>>
  \/ \E target \in {1, MaxSizeBytes} : CacheEvictLru(target) /\ UNCHANGED <<lruHist, beyondCache>>

\* The cache alone, driven sequentially, within the TTL of every entry.
CacheSpec == Init /\ [][CacheNext]_vars

TimedNext ==
  \/ CacheNext
  \/ CacheCleanupExpired /\ UNCHANGED <<lruHist, beyondCache>>
  \/ Tick /\ UNCHANGED <<lruHist, beyondCache>>

\* The cache alone, driven sequentially, with time passing and the sweep.
TimedSpec == Init /\ [][TimedNext]_vars

\* The history after a touch of id.
Touch(id) == <<id>> \o SelectSeq(touched, LAMBDA y : y # id)

\* The small chunks: the byte limit is out of their reach.
LruChunks == {create_test_chunk(id, 0) : id \in 1..4}

LruNext ==
  \/ \E chunk \in LruChunks :
       /\ CacheInsert(chunk)
       /\ touched' = Touch(chunk.id)
       /\ inserted' = inserted \cup {chunk.id}
       /\ UNCHANGED beyondCache
  \/ \E id \in 1..4 :
       /\ CacheGet(id)
       /\ touched' = (IF Contains(cache, id) THEN Touch(id) ELSE touched)
       /\ UNCHANGED <<inserted, beyondCache>>

\* The cache driven with insert and get only, below the byte limit.
LruSpec == Init /\ [][LruNext]_vars

(***************************************************************************)
(* The store alone, driven sequentially.                                   *)
(***************************************************************************)
\* The history after a store_chunk or update_chunk of chunk that returned r.
DurableAfter(chunk, r, fail) ==
  IF fail = "insert" THEN durable
  ELSE MapInsert(durable, chunk.id, [chunk |-> chunk, ok |-> r.ok])

\* storage.store_chunk(&chunk)
StorageStore(chunk, fail) ==
  \E r \in {StoreChunk(storage, chunk, fail)} :
    /\ r.st.metadata.total_chunks <= MaxStores
    /\ storage' = r.st
    /\ sres' = [op |-> "store_chunk", arg |-> chunk.id, ok |-> r.ok, chunks |-> <<>>]
    /\ durable' = DurableAfter(chunk, r, fail)

\* storage.get_chunk(&id)
StorageGet(id) ==
  \E r \in {GetChunk(storage, id)} :
    /\ sres' = [op |-> "get_chunk", arg |-> id, ok |-> r.ok,
                chunks |-> IF r.some THEN <<r.chunk>> ELSE <<>>]
    /\ UNCHANGED <<storage, durable>>

\* storage.get_chunks_by_framework(framework)
StorageGetByFramework(framework) ==
  \E r \in {GetChunksByFramework(storage, framework)} :
    /\ sres' = [op |-> "get_chunks_by_framework", arg |-> framework,
                ok |-> r.ok, chunks |-> r.chunks]
    /\ UNCHANGED <<storage, durable>>

\* storage.get_chunks_by_pattern(pattern)
StorageGetByPattern(pattern) ==
  \E r \in {GetChunksByPattern(storage, pattern)} :
    /\ sres' = [op |-> "get_chunks_by_pattern", arg |-> pattern,
                ok |-> r.ok, chunks |-> r.chunks]
    /\ UNCHANGED <<storage, durable>>

\* storage.update_chunk(&chunk)
StorageUpdate(chunk, fail) ==
  \E r \in {UpdateChunk(storage, chunk, fail)} :
    /\ r.st.metadata.total_chunks <= MaxStores
    /\ storage' = r.st
    /\ sres' = [op |-> "update_chunk", arg |-> chunk.id, ok |-> r.ok, chunks |-> <<>>]
    /\ durable' = DurableAfter(chunk, r, fail)

\* storage.delete_chunk(&id)
StorageDelete(id) ==
  \E r \in {DeleteChunk(storage, id)} :
    /\ storage' = r.st
    /\ sres' = [op |-> "delete_chunk", arg |-> id, ok |-> r.existed, chunks |-> <<>>]
    /\ durable' = MapRemove(durable, id)

\* What the store's operations leave alone.
beyondStorage == <<cacheVars, lruHist, engineVars, simres, taskVars>>

StorageNext ==
  \/ \E chunk \in StorageChunks, fail \in StoreFailures :
       StorageStore(chunk, fail) /\ UNCHANGED <<stored, beyondStorage>>
  \/ \E id \in StorageIds : StorageGet(id) /\ UNCHANGED <<stored, beyondStorage>>
  \/ \E framework \in StorageFrameworks :
       StorageGetByFramework(framework) /\ UNCHANGED <<stored, beyondStorage>>
  \/ StorageGetByPattern("export-function") /\ UNCHANGED <<stored, beyondStorage>>
  \/ \E chunk \in StorageChunks, fail \in StoreFailures :
       StorageUpdate(chunk, fail) /\ UNCHANGED <<stored, beyondStorage>>
  \/ \E id \in StorageIds : StorageDelete(id) /\ UNCHANGED <<stored, beyondStorage>>

\* The store alone, driven sequentially.
StorageSpec == Init /\ [][StorageNext]_vars

\* Chunks of distinct ids: two tagged react, one of them with Data content,
\* and two tagged vue.
IndexChunks ==
  {create_storage_test_chunk(1, "react"), create_storage_test_chunk(2, "vue"),
   create_data_chunk(3, "react"), create_storage_test_chunk(4, "react")}

IndexNext ==
  \/ \E chunk \in IndexChunks :
       /\ StorageStore(chunk, "none")
       /\ stored' = stored \cup {chunk}
       /\ UNCHANGED beyondStorage
  \/ \E framework \in StorageFrameworks :
       StorageGetByFramework(framework) /\ UNCHANGED <<stored, beyondStorage>>

\* The store driven with successful store_chunk calls and framework queries.
IndexSpec == Init /\ [][IndexNext]_vars

(***************************************************************************)
(* The engine, driven sequentially.                                        *)
(***************************************************************************)
\* engine.store_chunk(chunk)
EngineStore(chunk, fail) ==
  \E r \in {EngineStoreChunk(engine, storage, cache, chunk, fail, now)} :
    /\ r.st.metadata.total_chunks <= MaxStores
    /\ CountersWithin(r.c)
    /\ storage' = r.st
    /\ cache' = r.c
    /\ engine' = r.eng
    /\ eres' = [op |-> "store_chunk", arg |-> chunk, ok |-> r.ok, err |-> r.err, id |-> r.id,
                chunks |-> <<>>]
    /\ accepted' = IF r.ok THEN MapInsert(accepted, chunk.id, chunk) ELSE accepted

\* engine.get_chunk(&id)
EngineGet(id) ==
  \E r \in {EngineGetChunk(engine, storage, cache, id, now)} :
    /\ CountersWithin(r.c)
    /\ cache' = r.c
    /\ engine' = r.eng
    /\ eres' = [op |-> "get_chunk", arg |-> id, ok |-> r.ok, err |-> NoString, id |-> NoneId,
                chunks |-> IF r.some THEN <<r.chunk>> ELSE <<>>]
    /\ UNCHANGED <<storage, accepted>>

\* engine.find_similar(&chunk, limit)
EngineFind(chunk, limit) ==
  /\ eres' = [op |-> "find_similar", arg |-> chunk, ok |-> TRUE, err |-> NoString, id |-> NoneId,
              chunks |-> EngineFindSimilar(engine, chunk, limit)]
  /\ UNCHANGED <<engine, storage, cache, accepted>>

\* What the engine's operations leave alone.
beyondEngine == <<now, last, lruHist, sres, durable, stored, simres, taskVars>>

EngineNext ==
  \/ \E chunk \in EngineChunks, fail \in EngineFailures :
       EngineStore(chunk, fail) /\ UNCHANGED beyondEngine
  \/ \E id \in EngineIds : EngineGet(id) /\ UNCHANGED beyondEngine
  \/ \E chunk \in EngineChunks :
       EngineFind(chunk, 5) /\ UNCHANGED beyondEngine

\* The engine, driven sequentially.
EngineSpec == Init /\ [][EngineNext]_vars

(***************************************************************************)
(* The similarity functions, applied to pairs and to candidate lists.      *)
(***************************************************************************)
\* patterns.rs tests: create_test_chunk(id, code, framework), with the type,
\* the patterns and the embedding varied as well.
create_pattern_test_chunk(id, chunk_type, text, frameworks, patterns, embedding) ==
  LearningChunk(id, chunk_type, "Code", text, 0, NoString, frameworks, patterns, embedding, 0)

\* The embeddings: none, opposite unit vectors, an orthogonal one, the zero
\* vector and one of norm 5.
SimEmbeddings ==
  {NoEmbedding, SomeEmbedding(<<1, 0>>), SomeEmbedding(<<0 - 1, 0>>),
   SomeEmbedding(<<0, 2>>), SomeEmbedding(<<0, 0>>), SomeEmbedding(<<3, 4>>)}

\* The chunks compared.
SimChunks ==
  {create_pattern_test_chunk(id, chunk_type, <<"export", "const">>, frameworks, patterns, embedding) :
     id \in {1, 2}, chunk_type \in {"Pattern", "Component"},
     frameworks \in {<<>>, <<"nextjs">>, <<"nextjs", "laravel">>},
     patterns \in {<<>>, <<"hook">>}, embedding \in SimEmbeddings}

\* The chunks a candidate list is made of.
CandidateChunks ==
  {create_pattern_test_chunk(id, "Pattern", text, <<"nextjs">>, <<"hook">>, NoEmbedding) :
     id \in {1, 2, 3}, text \in {<<"export", "const">>, <<"export", "test", "x">>}}

\* The candidate lists: up to MaxCandidates chunks.
CandidateLists ==
  UNION {[1..n -> CandidateChunks] : n \in 0..MaxCandidates}

\* The inputs: a pair of chunks to score, or a chunk, a candidate list and a
\* limit for the loop of find_similar.
SimInputs ==
  {[op |-> "pair", chunk1 |-> chunk1, chunk2 |-> chunk2] :
     chunk1 \in SimChunks, chunk2 \in SimChunks}
  \cup {[op |-> "list", chunk |-> chunk, candidates |-> candidates, limit |-> limit] :
          chunk \in CandidateChunks, candidates \in CandidateLists, limit \in {1, 5}}

SimInit ==
  /\ CacheInit /\ StorageInit /\ EngineInit /\ TaskInit
  /\ simres \in SimInputs

\* The four scores of the pair of chunks and their weighted sum.
SimCompare ==
  /\ simres.op = "pair"
  /\ simres' = [op |-> "scores", chunk1 |-> simres.chunk1, chunk2 |-> simres.chunk2,
                scores |-> Scores(simres.chunk1, simres.chunk2)]

\* The loop, sort and cut of find_similar over the candidate list.
SimFind ==
  /\ simres.op = "list"
  /\ simres' = [op |-> "find_similar", chunk |-> simres.chunk,
                candidates |-> simres.candidates, limit |-> simres.limit,
                matches |-> FindSimilarAmong(simres.chunk, simres.candidates,
                                            simres.limit)]

\* What the similarity functions leave alone.
beyondSim == <<cacheVars, lruHist, storeVars, engineVars, taskVars>>

SimNext ==
  \/ SimCompare /\ UNCHANGED beyondSim
  \/ SimFind /\ UNCHANGED beyondSim

\* The similarity functions alone, each applied to an input.
SimSpec == SimInit /\ [][SimNext]_vars

(***************************************************************************)
(* The cache's claims.                                                     *)
(***************************************************************************)
\* The ids of the first n entries of a sequence of ids.
FirstIds(s, n) == {s[i] : i \in 1..(IF n <= Len(s) THEN n ELSE Len(s))}

\* C1: LRU order.  For any sequence of insert and get calls that stays below
\* the byte limit, once more than max_chunks distinct ids have been inserted
\* the ids held are the max_chunks most recently touched ones.
C1_LruOrder ==
  Cardinality(inserted) > MaxChunks
    => DOMAIN cache.chunks = FirstIds(touched, MaxChunks)

\* C2: eviction monotonicity.  After every insert has completed, the cache
\* is within both of its limits.
C2_WithinLimitsAfterInsert ==
  last.op = "insert"
    => /\ cache.stats.current_chunks <= MaxChunks
       /\ cache.stats.memory_usage_bytes <= MaxSizeBytes

RECURSIVE ListFrom(_, _, _)
\* The ids met following next from id, at most n of them.
ListFrom(c, id, n) ==
  IF id = NoneId \/ id \notin DOMAIN c.chunks \/ n = 0
    THEN <<>>
    ELSE <<id>> \o ListFrom(c, c.chunks[id].next, n - 1)

\* The recency list of c is the map of c: next from head visits exactly the
\* mapped ids, each once, and ends at tail; prev is the inverse of next.
ListWellFormed(c) ==
  LET l == ListFrom(c, c.head, Cardinality(DOMAIN c.chunks) + 1)
  IN  /\ c.head \in DOMAIN c.chunks \cup {NoneId}
      /\ c.tail \in DOMAIN c.chunks \cup {NoneId}
      /\ Len(l) = Cardinality(DOMAIN c.chunks)
      /\ {l[i] : i \in 1..Len(l)} = DOMAIN c.chunks
      /\ l = <<>> => c.head = NoneId /\ c.tail = NoneId
      /\ l # <<>> => /\ c.tail = l[Len(l)]
                     /\ c.chunks[c.tail].next = NoneId
                     /\ c.chunks[c.head].prev = NoneId
      /\ \A i \in 1..(Len(l) - 1) : c.chunks[l[i + 1]].prev = l[i]

\* C3: the recency-list invariant.  In sequential use, after any sequence of
\* insert, get, remove, evict_lru, cleanup_expired and clear, the list and
\* the map agree.
C3_RecencyListInvariant == ListWellFormed(cache)

(***************************************************************************)
(* The store's claims.                                                     *)
(***************************************************************************)
\* C6: storage round-trip.  When get_chunk(id) has just returned and the last
\* tree write for id was a store_chunk that returned Ok, with no delete since,
\* the call returned Ok(Some(chunk)) with the chunk that store_chunk was
\* given, whatever its content variant.
C6_StorageRoundTrip ==
  (sres.op = "get_chunk" /\ sres.arg \in DOMAIN durable /\ durable[sres.arg].ok)
    => (sres.ok /\ sres.chunks = <<durable[sres.arg].chunk>>)

\* The chunks stored so far that carry the tag framework.
Tagged(framework) == {chunk \in stored : InSeq(chunk.metadata.frameworks, framework)}

\* C7: framework index completeness.  When get_chunks_by_framework(f) has just
\* returned after successful stores of chunks of distinct ids, it returned
\* Ok with exactly the stored chunks tagged f, each once.
C7_FrameworkIndexComplete ==
  sres.op = "get_chunks_by_framework"
    => /\ sres.ok
       /\ {sres.chunks[i] : i \in 1..Len(sres.chunks)} = Tagged(sres.arg)
       /\ Len(sres.chunks) = Cardinality(Tagged(sres.arg))

(***************************************************************************)
(* The engine's claims.                                                    *)
(***************************************************************************)
\* C4: eviction never destroys a chunk.  When engine.get_chunk(id) has just
\* returned for an id whose store_chunk succeeded, it returned Ok(Some(..)),
\* whatever the cache evicted in between.
C4_EvictionKeepsChunk ==
  (eres.op = "get_chunk" /\ eres.arg \in DOMAIN accepted)
    => (eres.ok /\ Len(eres.chunks) = 1)

\* C5: store then get.  A store_chunk(c) that returned Ok returned c.id, and a
\* get_chunk(id) that follows successful stores of id returns Some chunk with
\* the content of the most recent successful one.
C5_StoreThenGet ==
  /\ (eres.op = "store_chunk" /\ eres.ok) => eres.id = eres.arg.id
  /\ (eres.op = "get_chunk" /\ eres.arg \in DOMAIN accepted)
       => /\ eres.ok
          /\ Len(eres.chunks) = 1
          /\ eres.chunks[1].content = accepted[eres.arg].content

\* Chunk a, then chunk b, went through a successful store_chunk: the
\* analyzer lists a's id before b's under framework.
StoredInOrder(a, b, framework) ==
  /\ framework \in DOMAIN engine.analyzer.framework_graph
  /\ LET primary_chunks == engine.analyzer.framework_graph[framework].primary_chunks
     IN  \E i, j \in 1..Len(primary_chunks) :
           i < j /\ primary_chunks[i] = a /\ primary_chunks[j] = b

\* C8: near-duplicates are found.  With chunk 1 and then chunk 2 (same
\* framework, pattern and type, bodies one word apart) stored through the
\* engine, find_similar(chunk 1, 5) returns chunk 2 with a score at or above
\* the threshold.
C8_FindsNearDuplicate ==
  (/\ eres.op = "find_similar"
   /\ eres.arg = create_engine_test_chunk(1, <<"export", "const", "test">>)
   /\ {1, 2} \subseteq DOMAIN accepted
   /\ accepted[1] = eres.arg
   /\ StoredInOrder(1, 2, "vue"))
    => \E i \in 1..Len(eres.chunks) :
         /\ eres.chunks[i].chunk.id = 2
         /\ eres.chunks[i].score >= SimilarityThreshold * Scale

(***************************************************************************)
(* The similarity functions' claims.                                       *)
(***************************************************************************)
\* C9: similarity bounds.  For every pair of chunks each of the four scores
\* lies in [0, 1], the semantic score in particular is never negative, and
\* the weighted sum lies in [0, 1].
C9_SimilarityBounds ==
  simres.op = "scores"
    => /\ simres.scores.content \in 0..Scale
       /\ simres.scores.structural \in 0..Scale
       /\ simres.scores.semantic \in 0..Scale
       /\ simres.scores.framework \in 0..Scale
       /\ simres.scores.overall \in 0..(100 * Scale)

\* C10: self-exclusion.  Whatever the candidate list holds, no match that
\* find_similar(chunk, limit) returns has the id of chunk.
C10_SelfExclusion ==
  simres.op = "find_similar"
    => \A i \in 1..Len(simres.matches) :
         simres.matches[i].chunk.id # simres.chunk.id

\* find_similar has returned matches from a candidate list that holds the
\* chunk itself.
C10_Witness ==
  /\ simres.op = "find_similar"
  /\ \E i \in 1..Len(simres.candidates) : simres.candidates[i] = simres.chunk
  /\ simres.matches # <<>>

\* ---------------------------------------------------------------------------
\* C20: a get that returns None (the id is not in the cache, as every id is
\* when the map is empty) adds 1 to misses and leaves hits, the map with its
\* nodes, and the recency list's head and tail as they were; after every get,
\* hit or miss, hit_ratio is hits / (hits + misses).
C20_GetMiss ==
  [][last'.op = "get" =>
       /\ cache'.stats.hit_ratio =
            [num |-> cache'.stats.hits,
             den |-> cache'.stats.hits + cache'.stats.misses]
       /\ (cache.chunks = <<>> => ~last'.ok)
       /\ (~last'.ok =>
             /\ cache'.stats.misses = cache.stats.misses + 1
             /\ cache'.stats.hits = cache.stats.hits
             /\ cache'.chunks = cache.chunks
             /\ cache'.head = cache.head
             /\ cache'.tail = cache.tail)]_vars

\* A miss on a non-empty cache that has already served a hit.
C20_Witness ==
  /\ last.op = "get"
  /\ ~last.ok
  /\ cache.chunks # <<>>
  /\ cache.stats.hits > 0
  /\ cache.stats.misses > 0

\* ---------------------------------------------------------------------------
\* C19: with the byte limit out of reach, when a cache that has only been
\* inserted into, holds max_chunks distinct ids and has evicted nothing takes
\* the insert of one more id, the first-inserted id is absent afterwards, the
\* other max_chunks ids are present, current_chunks = max_chunks and the
\* eviction counter is exactly 1.
C19_CountOverflow ==
  [][(/\ cache.stats.hits = 0
      /\ cache.stats.misses = 0
      /\ cache.stats.evictions = 0
      /\ Len(touched) = MaxChunks
      /\ Len(touched') = MaxChunks + 1) =>
       /\ ~Contains(cache', touched'[MaxChunks + 1])
       /\ \A i \in 1..MaxChunks : Contains(cache', touched'[i])
       /\ cache'.stats.current_chunks = MaxChunks
       /\ cache'.stats.evictions = 1]_vars

\* The cache right after the overflowing insert.
C19_Witness ==
  /\ last.op = "insert"
  /\ cache.stats.hits = 0
  /\ cache.stats.misses = 0
  /\ cache.stats.evictions = 1
  /\ Len(touched) = MaxChunks + 1
  /\ ~Contains(cache, touched[MaxChunks + 1])
  /\ cache.stats.current_chunks = MaxChunks

(***************************************************************************)
(* The engine with records deleted from its store behind its back.        *)
(***************************************************************************)
DeleteNext ==
  \/ \E chunk \in EngineChunks :
       /\ EngineStore(chunk, "none")
       /\ engine'.stats.disk_writes <= MaxStores
       /\ UNCHANGED beyondEngine
  \/ \E id \in EngineIds : EngineGet(id) /\ UNCHANGED beyondEngine
  \/ \E id \in EngineIds : StorageDelete(id) /\ UNCHANGED <<stored, beyondStorage>>

\* The engine's store_chunk and get_chunk, and the store's delete_chunk.
DeleteSpec == Init /\ [][DeleteNext]_vars

\* ---------------------------------------------------------------------------
\* C11: storage.delete_chunk(id) leaves the cache as it was, and an
\* engine.get_chunk(id) of an id that is in the cache returns Ok with the
\* cached chunk, whether or not the store still holds a record of the id.
C11_CacheOutlivesDelete ==
  [][/\ (\/ sres' # sres
         \/ \E id \in DOMAIN storage.chunks_tree :
              id \notin DOMAIN storage'.chunks_tree) => cache' = cache
     /\ \A id \in EngineIds :
          (eres'.op = "get_chunk" /\ eres'.arg = id
             /\ sres' = sres /\ storage' = storage
             /\ Contains(cache, id)) =>
            /\ eres'.ok
            /\ eres'.chunks = <<cache.chunks[id].chunk>>]_vars

\* A get_chunk served from the cache for an id whose record the store has
\* deleted.
C11_Witness ==
  /\ sres.op = "delete_chunk"
  /\ sres.ok
  /\ eres.op = "get_chunk"
  /\ eres.arg = sres.arg
  /\ eres.chunks # <<>>
  /\ eres.arg \notin DOMAIN storage.chunks_tree
  /\ engine.stats.disk_reads = 0

\* ---------------------------------------------------------------------------
\* C12: every engine.get_chunk adds 1 to exactly one of cache_hits and
\* cache_misses: to cache_hits and to nothing else when the cache holds the
\* id; to cache_misses and to disk_reads, and to nothing else, when the cache
\* does not hold it, whether or not the store then holds the chunk.
C12_GetCounters ==
  [][eres'.op = "get_chunk" =>
       IF Contains(cache, eres'.arg)
         THEN engine'.stats = [engine.stats EXCEPT !.cache_hits = @ + 1]
         ELSE engine'.stats = [engine.stats EXCEPT !.cache_misses = @ + 1,
                                                   !.disk_reads = @ + 1]]_vars

\* ---------------------------------------------------------------------------
\* C13: each engine.get_chunk(id) that returns the chunk increases its usage
\* counter by 1 and moves its last-accessed time forward, so of two
\* get_chunk(id) in a row that both return the chunk, the second returns a
\* usage counter one above the first's and a last-accessed time not before it.
C13_AccessMutatesMetadata ==
  [][(/\ eres.op = "get_chunk"
      /\ eres'.op = "get_chunk"
      /\ eres'.arg = eres.arg
      /\ eres.chunks # <<>>
      /\ eres'.chunks # <<>>) =>
       /\ eres'.chunks[1].metadata.usage_count =
            eres.chunks[1].metadata.usage_count + 1
       /\ eres'.chunks[1].metadata.last_accessed >=
            eres.chunks[1].metadata.last_accessed]_vars

(***************************************************************************)
(* The engine with every step of store_chunk able to fail.                 *)
(***************************************************************************)
\* The failing steps: the two tree writes of the store and the search
\* index's add_document.
StepFailures == {"none", "insert", "index", "search"}

FailNext ==
  \E chunk \in EngineChunks, fail \in StepFailures :
    EngineStore(chunk, fail) /\ UNCHANGED beyondEngine

\* store_chunk after store_chunk, each failing at any step or at none.
FailSpec == Init /\ [][FailNext]_vars

\* ---------------------------------------------------------------------------
\* C14: an engine.store_chunk whose storage step fails returns an error and
\* leaves the cache, the search index, the pattern analyzer and the engine
\* counters (total_chunks and disk_writes among them) as they were.
C14_StorageFailureStopsStore ==
  [][(eres'.op = "store_chunk" /\ eres'.err = "Failed to store chunk to disk") =>
       /\ ~eres'.ok
       /\ cache' = cache
       /\ engine'.search_docs = engine.search_docs
       /\ engine'.analyzer = engine.analyzer
       /\ engine'.stats = engine.stats]_vars

\* A failed storage step for a chunk whose id the cache does not hold, in an
\* engine that has stored other chunks.
C14_Witness ==
  /\ eres.op = "store_chunk"
  /\ eres.err = "Failed to store chunk to disk"
  /\ ~Contains(cache, eres.arg.id)
  /\ cache.chunks # <<>>
  /\ engine.stats.total_chunks > 0

\* ---------------------------------------------------------------------------
\* C15: an engine.store_chunk whose search indexing fails returns an error
\* without rolling anything back: afterwards storage.get_chunk(id) returns
\* the chunk, the cache holds it, and the engine counters (total_chunks and
\* disk_writes among them) are as they were.
C15_IndexFailureKeepsWrite ==
  [][(eres'.op = "store_chunk" /\ eres'.err = "Failed to index chunk for search") =>
       /\ ~eres'.ok
       /\ GetChunk(storage', eres'.arg.id) =
            [ok |-> TRUE, some |-> TRUE, chunk |-> eres'.arg]
       /\ Contains(cache', eres'.arg.id)
       /\ cache'.chunks[eres'.arg.id].chunk = eres'.arg
       /\ engine'.stats = engine.stats]_vars

(***************************************************************************)
(* The engine constructed with or without search, storing and searching.   *)
(***************************************************************************)
\* MemoryEngine::new with enable_search either way.
SearchInit ==
  /\ CacheInit /\ StorageInit /\ TaskInit
  /\ engine \in {NewEngine(enable_search) : enable_search \in BOOLEAN}
  /\ eres = [op |-> "none", arg |-> NoneId, ok |-> TRUE, err |-> NoString, id |-> NoneId,
             chunks |-> <<>>]
  /\ accepted = <<>>
  /\ simres = [op |-> "none"]

\* engine.search_chunks(query, limit)
EngineSearch(query, limit, fail) ==
  \E r \in {EngineSearchChunks(engine, query, limit, fail)} :
    /\ r.eng.stats.search_queries <= MaxCount
    /\ engine' = r.eng
    /\ eres' = [op |-> "search_chunks", arg |-> query, ok |-> r.ok, err |-> r.err,
                id |-> NoneId, chunks |-> r.chunks]
    /\ UNCHANGED <<storage, cache, accepted>>

SearchNext ==
  \/ \E chunk \in EngineChunks, fail \in {"none", "search"} :
       EngineStore(chunk, fail) /\ UNCHANGED beyondEngine
  \/ \E query \in {"test", "useState"}, fail \in {"none", "parse"} :
       EngineSearch(query, 5, fail) /\ UNCHANGED beyondEngine

\* store_chunk and search_chunks on an engine with or without search.
SearchSpec == SearchInit /\ [][SearchNext]_vars

\* ---------------------------------------------------------------------------
\* C16: on an engine constructed with enable_search = false every
\* search_chunks returns an error and changes nothing, search_queries
\* included; on an engine with search enabled every search_chunks adds
\* exactly 1 to search_queries.
C16_SearchCountsWhenEnabled ==
  [][eres'.op = "search_chunks" =>
       IF engine.enable_search
         THEN engine'.stats = [engine.stats EXCEPT !.search_queries = @ + 1]
         ELSE /\ ~eres'.ok
              /\ engine' = engine
              /\ cache' = cache
              /\ storage' = storage]_vars

\* A refused search on an engine without search that has stored a chunk.
C16_Witness ==
  /\ eres.op = "search_chunks"
  /\ ~eres.ok
  /\ eres.err = "Search engine not enabled"
  /\ ~engine.enable_search
  /\ engine.stats.total_chunks > 0
  /\ engine.stats.search_queries = 0

(***************************************************************************)
(* The engine constructed over a store that already holds chunks.          *)
(***************************************************************************)
\* Code chunks well below the byte limit that differ in id and in
\* last_accessed.
WarmupChunks ==
  {LearningChunk(id, "Pattern", "Code", <<"export", "const", "test">>, 0, "vue", <<"vue">>, <<"hook">>, NoEmbedding, last_accessed) :
     id \in 1..3, last_accessed \in 0..MaxTime}

\* MemoryEngine::new(config) over the store as it is: a new cache, warmed up.
EngineNew ==
  /\ cache' = WarmupCache(storage, NewCache, now)
  /\ engine' = NewEngine(TRUE)
  /\ eres' = [op |-> "new", arg |-> NoneId, ok |-> TRUE, err |-> NoString, id |-> NoneId,
              chunks |-> <<>>]
  /\ UNCHANGED <<storage, accepted>>

WarmupNext ==
  \/ \E chunk \in WarmupChunks :
       StorageStore(chunk, "none") /\ UNCHANGED <<stored, beyondStorage>>
  \/ EngineNew /\ UNCHANGED beyondEngine

\* Chunks written to the store, and the engine constructed over it.
WarmupSpec == Init /\ [][WarmupNext]_vars

\* The smaller of two numbers.
Min(a, b) == IF a < b THEN a ELSE b

\* ---------------------------------------------------------------------------
\* C17: right after MemoryEngine::new over a store that holds M chunks, the
\* cache holds exactly min(M, max_hot_chunks / 2) chunks, and no stored
\* chunk left out of the cache was accessed later than one that is in it.
C17_WarmupMostRecent ==
  [][(eres'.op = "new" /\ storage' = storage /\ sres' = sres) =>
       /\ Cardinality(DOMAIN cache'.chunks) =
            Min(Cardinality(DOMAIN storage.chunks_tree), MaxChunks \div 2)
       /\ DOMAIN cache'.chunks \subseteq DOMAIN storage.chunks_tree
       /\ \A id \in DOMAIN cache'.chunks :
            /\ cache'.chunks[id].chunk = GetChunk(storage, id).chunk
            /\ \A other \in DOMAIN storage.chunks_tree \ DOMAIN cache'.chunks :
                 GetChunk(storage, other).chunk.metadata.last_accessed
                   <= cache'.chunks[id].chunk.metadata.last_accessed]_vars

(***************************************************************************)
(* The lock guards and the suspension points of the async functions.  A    *)
(* function is the sequence of its steps that take a synchronous           *)
(* (parking_lot) guard, release one (drop, or the end of the guard's       *)
(* scope), await a call, branch or return; a step is [k, a].               *)
(***************************************************************************)
\* let guard = self.<lock>.read() / .write()
Acq(lock) == [k |-> "acq", a |-> lock]

\* drop(guard), or the end of the guard's scope
Rel(lock) == [k |-> "rel", a |-> lock]

\* self.<fn>(..).await, fn being one of the functions below
Call(fn) == [k |-> "call", a |-> fn]

\* <future of another component>.await
Await == [k |-> "await", a |-> NoString]

\* if / if let / for / while / ?: control goes on at one of the steps in to
Jmp(to) == [k |-> "jmp", a |-> to]

\* return, or the end of the function
Ret == [k |-> "ret", a |-> NoString]

\* LruCache::insert
InsertSteps ==
  <<Acq("cache.chunks"), Acq("cache.stats"), Jmp({4, 8}),
    Rel("cache.chunks"), Rel("cache.stats"), Call("LruCache::move_to_head"), Ret,
    Rel("cache.chunks"), Rel("cache.stats"), Call("LruCache::add_to_head"),
    Call("LruCache::enforce_limits"), Ret>>

\* LruCache::get that moves the hit to the head before it lets go of the map.
GetStepsHoldingMap ==
  <<Acq("cache.chunks"), Acq("cache.stats"), Jmp({4, 8}),
    Rel("cache.stats"), Call("LruCache::move_to_head"), Rel("cache.chunks"), Ret,
    Rel("cache.stats"), Rel("cache.chunks"), Ret>>

\* LruCache::get
GetSteps ==
  <<Acq("cache.chunks"), Acq("cache.stats"), Jmp({4, 8}),
    Rel("cache.chunks"), Rel("cache.stats"), Call("LruCache::move_to_head"), Ret,
    Rel("cache.stats"), Rel("cache.chunks"), Ret>>

\* LruCache::remove that takes the guard of the stats before it looks into
\* the map.
RemoveStepsStatsFirst ==
  <<Acq("cache.stats"), Acq("cache.chunks"), Jmp({4, 8}),
    Rel("cache.chunks"), Rel("cache.stats"),
    Call("LruCache::remove_from_list"), Ret,
    Rel("cache.chunks"), Rel("cache.stats"), Ret>>

\* LruCache::remove
RemoveSteps ==
  <<Acq("cache.chunks"), Jmp({3, 8}),
    Acq("cache.stats"), Rel("cache.chunks"), Rel("cache.stats"),
    Call("LruCache::remove_from_list"), Ret,
    Rel("cache.chunks"), Ret>>

\* LruCache::clear
ClearSteps ==
  <<Acq("cache.chunks"), Rel("cache.chunks"), Acq("cache.head"), Rel("cache.head"),
    Acq("cache.tail"), Rel("cache.tail"), Acq("cache.stats"), Rel("cache.stats"), Ret>>

\* LruCache::cleanup_expired
CleanupExpiredSteps ==
  <<Acq("cache.chunks"), Rel("cache.chunks"), Jmp({4, 6}),
    Call("LruCache::remove"), Jmp({3}), Ret>>

\* LruCache::evict_lru
EvictLruSteps ==
  <<Jmp({2, 12}), Acq("cache.tail"), Rel("cache.tail"), Jmp({5, 12}),
    Acq("cache.chunks"), Rel("cache.chunks"), Call("LruCache::remove"), Jmp({9, 12}),
    Acq("cache.stats"), Rel("cache.stats"), Jmp({1}), Ret>>

\* LruCache::enforce_limits
EnforceLimitsSteps ==
  <<Acq("cache.stats"), Rel("cache.stats"), Jmp({4, 8}), Jmp({5, 7}),
    Acq("cache.stats"), Rel("cache.stats"), Call("LruCache::evict_lru"), Ret>>

\* LruCache::add_to_head
AddToHeadSteps ==
  <<Acq("cache.head"), Rel("cache.head"), Acq("cache.chunks"), Rel("cache.chunks"),
    Jmp({6, 9}), Acq("cache.chunks"), Rel("cache.chunks"), Jmp({11}),
    Acq("cache.tail"), Rel("cache.tail"), Ret>>

\* LruCache::move_to_head
MoveToHeadSteps ==
  <<Call("LruCache::remove_from_list"), Call("LruCache::add_to_head"), Ret>>

\* LruCache::remove_from_list
RemoveFromListSteps ==
  <<Acq("cache.chunks"), Jmp({3, 5}), Rel("cache.chunks"), Jmp({7}),
    Rel("cache.chunks"), Ret,
    Jmp({8, 11}), Acq("cache.chunks"), Rel("cache.chunks"), Jmp({13}),
    Acq("cache.head"), Rel("cache.head"),
    Jmp({14, 17}), Acq("cache.chunks"), Rel("cache.chunks"), Jmp({19}),
    Acq("cache.tail"), Rel("cache.tail"), Ret>>

\* The async functions of HybridStorage.  get_chunk, get_recent_chunks,
\* add_to_framework_index, add_to_pattern_index and remove_from_indexes take
\* no guard and await nothing.
StorageSteps ==
  [fn \in {"HybridStorage::store_chunk"} |->
     <<Jmp({2, 11}),
       Jmp({3, 5}), Call("HybridStorage::add_to_framework_index"), Jmp({2, 11}),
       Jmp({6, 8}), Call("HybridStorage::add_to_pattern_index"), Jmp({5, 11}),
       Acq("storage.metadata"), Rel("storage.metadata"),
       Call("HybridStorage::save_metadata"), Ret>>]
  @@ [fn \in {"HybridStorage::get_chunk", "HybridStorage::get_recent_chunks",
              "HybridStorage::add_to_framework_index",
              "HybridStorage::add_to_pattern_index",
              "HybridStorage::remove_from_indexes"} |-> <<Ret>>]
  @@ [fn \in {"HybridStorage::get_chunks_by_framework",
              "HybridStorage::get_chunks_by_pattern"} |->
        <<Jmp({2, 4}), Call("HybridStorage::get_chunk"), Jmp({2, 4}), Ret>>]
  @@ [fn \in {"HybridStorage::update_chunk"} |->
        <<Call("HybridStorage::remove_from_indexes"), Jmp({3, 4}),
          Call("HybridStorage::store_chunk"), Ret>>]
  @@ [fn \in {"HybridStorage::delete_chunk"} |->
        <<Jmp({2, 7}), Call("HybridStorage::remove_from_indexes"), Jmp({4, 7}),
          Acq("storage.metadata"), Rel("storage.metadata"),
          Call("HybridStorage::save_metadata"), Ret>>]
  @@ [fn \in {"HybridStorage::compact"} |->
        <<Jmp({2, 7}), Await, Jmp({4, 7}),
          Acq("storage.metadata"), Rel("storage.metadata"),
          Call("HybridStorage::save_metadata"), Ret>>]
  @@ [fn \in {"HybridStorage::save_metadata"} |->
        <<Acq("storage.metadata"), Rel("storage.metadata"), Ret>>]

\* The async functions of PatternAnalyzer.  analyze_code_content,
\* extract_framework_pattern, get_similarity_candidates and
\* adjust_pattern_weights take no guard and await nothing.
AnalyzerSteps ==
  [fn \in {"PatternAnalyzer::analyze_chunk"} |->
     <<Call("PatternAnalyzer::extract_code_patterns"), Jmp({3, 9}),
       Call("PatternAnalyzer::analyze_framework_patterns"), Jmp({5, 9}),
       Call("PatternAnalyzer::update_relationship_graph"), Jmp({7, 9}),
       Acq("analyzer.pattern_stats"), Rel("analyzer.pattern_stats"), Ret>>]
  @@ [fn \in {"PatternAnalyzer::extract_code_patterns"} |->
        <<Jmp({2, 6}), Call("PatternAnalyzer::analyze_code_content"), Jmp({4, 6}),
          Acq("analyzer.code_patterns"), Rel("analyzer.code_patterns"), Ret>>]
  @@ [fn \in {"PatternAnalyzer::analyze_framework_patterns"} |->
        <<Jmp({2, 7}), Call("PatternAnalyzer::extract_framework_pattern"),
          Jmp({1, 4, 7}),
          Acq("analyzer.framework_patterns"), Rel("analyzer.framework_patterns"),
          Jmp({1}), Ret>>]
  @@ [fn \in {"PatternAnalyzer::update_relationship_graph",
              "PatternAnalyzer::rebuild_relationships",
              "PatternAnalyzer::get_nextjs_laravel_patterns"} |->
        <<Acq("analyzer.relationship_graph"), Rel("analyzer.relationship_graph"),
          Ret>>]
  @@ [fn \in {"PatternAnalyzer::analyze_code_content",
              "PatternAnalyzer::extract_framework_pattern",
              "PatternAnalyzer::get_similarity_candidates",
              "PatternAnalyzer::adjust_pattern_weights"} |-> <<Ret>>]
  @@ [fn \in {"PatternAnalyzer::find_similar"} |->
        <<Call("PatternAnalyzer::get_similarity_candidates"), Jmp({3, 5}),
          Acq("analyzer.pattern_stats"), Rel("analyzer.pattern_stats"), Ret>>]
  @@ [fn \in {"PatternAnalyzer::update_from_feedback"} |->
        <<Acq("analyzer.feedback_stats"), Rel("analyzer.feedback_stats"),
          Call("PatternAnalyzer::adjust_pattern_weights"), Ret>>]

\* The async functions of MemoryEngine.
EngineSteps ==
  [fn \in {"MemoryEngine::store_chunk"} |->
     <<Call("HybridStorage::store_chunk"), Jmp({3, 11}),
       Call("LruCache::insert"), Jmp({5, 7}), Await, Jmp({7, 11}),
       Call("PatternAnalyzer::analyze_chunk"), Jmp({9, 11}),
       Acq("engine.stats"), Rel("engine.stats"), Ret>>]
  @@ [fn \in {"MemoryEngine::get_chunk"} |->
        <<Call("LruCache::get"), Jmp({3, 6}),
          Acq("engine.stats"), Rel("engine.stats"), Ret,
          Call("HybridStorage::get_chunk"), Jmp({8, 9, 11}),
          Call("LruCache::insert"),
          Acq("engine.stats"), Rel("engine.stats"), Ret>>]
  @@ [fn \in {"MemoryEngine::search_chunks"} |->
        <<Jmp({2, 5}), Acq("engine.stats"), Rel("engine.stats"), Await, Ret>>]
  @@ [fn \in {"MemoryEngine::find_similar"} |->
        <<Call("PatternAnalyzer::find_similar"), Ret>>]
  @@ [fn \in {"MemoryEngine::get_framework_chunks"} |->
        <<Call("HybridStorage::get_chunks_by_framework"), Ret>>]
  @@ [fn \in {"MemoryEngine::learn_from_feedback"} |->
        <<Call("PatternAnalyzer::update_from_feedback"), Ret>>]
  @@ [fn \in {"MemoryEngine::optimize"} |->
        <<Call("HybridStorage::compact"), Jmp({3, 7}), Jmp({4, 6}), Await,
          Jmp({6, 7}), Call("PatternAnalyzer::rebuild_relationships"), Ret>>]
  @@ [fn \in {"MemoryEngine::warmup_cache"} |->
        <<Call("HybridStorage::get_recent_chunks"), Jmp({3, 5}),
          Call("LruCache::insert"), Jmp({2}), Ret>>]

\* The steps of each async function.
Steps ==
  [fn \in {"LruCache::insert"} |-> InsertSteps]
  @@ [fn \in {"LruCache::get"} |-> GetSteps]
  @@ [fn \in {"LruCache::remove"} |-> RemoveSteps]
  @@ [fn \in {"LruCache::clear"} |-> ClearSteps]
  @@ [fn \in {"LruCache::cleanup_expired"} |-> CleanupExpiredSteps]
  @@ [fn \in {"LruCache::evict_lru"} |-> EvictLruSteps]
  @@ [fn \in {"LruCache::enforce_limits"} |-> EnforceLimitsSteps]
  @@ [fn \in {"LruCache::add_to_head"} |-> AddToHeadSteps]
  @@ [fn \in {"LruCache::move_to_head"} |-> MoveToHeadSteps]
  @@ [fn \in {"LruCache::remove_from_list"} |-> RemoveFromListSteps]
  @@ StorageSteps @@ AnalyzerSteps @@ EngineSteps

\* The functions a caller of the crate can start: the pub async fns, and
\* warmup_cache, which MemoryEngine::new runs.
Operations ==
  {"LruCache::insert", "LruCache::get", "LruCache::remove", "LruCache::clear",
   "LruCache::cleanup_expired", "LruCache::evict_lru",
   "HybridStorage::store_chunk", "HybridStorage::get_chunk",
   "HybridStorage::get_chunks_by_framework", "HybridStorage::get_chunks_by_pattern",
   "HybridStorage::get_recent_chunks", "HybridStorage::update_chunk",
   "HybridStorage::delete_chunk", "HybridStorage::compact",
   "PatternAnalyzer::analyze_chunk", "PatternAnalyzer::find_similar",
   "PatternAnalyzer::update_from_feedback", "PatternAnalyzer::rebuild_relationships",
   "PatternAnalyzer::get_nextjs_laravel_patterns",
   "MemoryEngine::store_chunk", "MemoryEngine::get_chunk",
   "MemoryEngine::search_chunks", "MemoryEngine::find_similar",
   "MemoryEngine::get_framework_chunks", "MemoryEngine::learn_from_feedback",
   "MemoryEngine::optimize", "MemoryEngine::warmup_cache"}

\* The innermost frame and the step it is at.
Top == stack[Len(stack)]

Step == Steps[Top.fn][Top.pc]

\* The stack with the innermost frame moved to step pc.
GoTo(pc) == [stack EXCEPT ![Len(stack)].pc = pc]

\* A caller starts an operation.
Begin(fn) ==
  /\ stack = <<>>
  /\ stack' = <<[fn |-> fn, pc |-> 1]>>
  /\ UNCHANGED held

\* The task takes a guard; it waits while the lock is taken.
Acquire ==
  /\ stack # <<>>
  /\ Step.k = "acq"
  /\ Step.a \notin held
  /\ held' = held \cup {Step.a}
  /\ stack' = GoTo(Top.pc + 1)

\* The task lets go of a guard.
Release ==
  /\ stack # <<>>
  /\ Step.k = "rel"
  /\ held' = held \ {Step.a}
  /\ stack' = GoTo(Top.pc + 1)

\* The task awaits one of the crate's own async functions.
Enter ==
  /\ stack # <<>>
  /\ Step.k = "call"
  /\ stack' = Append(stack, [fn |-> Step.a, pc |-> 1])
  /\ UNCHANGED held

\* The task awaits another component's future, which completes.
Resume ==
  /\ stack # <<>>
  /\ Step.k = "await"
  /\ stack' = GoTo(Top.pc + 1)
  /\ UNCHANGED held

\* The task takes a branch.
Branch ==
  /\ stack # <<>>
  /\ Step.k = "jmp"
  /\ \E pc \in Step.a : stack' = GoTo(pc)
  /\ UNCHANGED held

\* The function returns to the await of its caller, or to the caller of the
\* operation.
Return ==
  /\ stack # <<>>
  /\ Step.k = "ret"
  /\ stack' = IF Len(stack) = 1 THEN <<>>
              ELSE [SubSeq(stack, 1, Len(stack) - 1) EXCEPT
                      ![Len(stack) - 1].pc = @ + 1]
  /\ UNCHANGED held

\* What a step of the task leaves alone.
beyondTask == <<cacheVars, lruHist, storeVars, engineVars, simres, evict, procs>>

GuardNext ==
  \/ \E fn \in Operations : Begin(fn) /\ UNCHANGED beyondTask
  \/ Acquire /\ UNCHANGED beyondTask
  \/ Release /\ UNCHANGED beyondTask
  \/ Enter /\ UNCHANGED beyondTask
  \/ Resume /\ UNCHANGED beyondTask
  \/ Branch /\ UNCHANGED beyondTask
  \/ Return /\ UNCHANGED beyondTask

\* One task running one operation after another, step by step.
GuardSpec == Init /\ [][GuardNext]_vars

\* ---------------------------------------------------------------------------
\* C18: no lock is held across a suspension point: whenever the running
\* function is at an .await, of one of the crate's functions or of another
\* component's future, the task holds no synchronous lock guard.
C18_NoGuardAcrossAwait ==
  (stack # <<>> /\ Step.k \in {"call", "await"}) => held = {}

\* LruCache::get, started by MemoryEngine::get_chunk, awaits move_to_head
\* after it took and let go of the guards of the map and of the stats.
C18_Witness ==
  /\ Len(stack) = 2
  /\ stack[1].fn = "MemoryEngine::get_chunk"
  /\ Top = [fn |-> "LruCache::get", pc |-> 6]
  /\ Step.k = "call"
  /\ held = {}

\* ---------------------------------------------------------------------------
\* C21: a remove that returns true took exactly one id out of the map,
\* lowered current_chunks by 1 and memory_usage_bytes by the node's recorded
\* size, and unlinked the id: head, tail and the prev and next of the nodes
\* that stay name it no longer.  A remove that returns false changes nothing.
C21_RemoveUnlinks ==
  [][last'.op = "remove" =>
       IF last'.ok
         THEN \E id \in DOMAIN cache.chunks :
                /\ DOMAIN cache'.chunks = DOMAIN cache.chunks \ {id}
                /\ cache'.stats.current_chunks = cache.stats.current_chunks - 1
                /\ cache'.stats.memory_usage_bytes =
                     cache.stats.memory_usage_bytes - cache.chunks[id].size
                /\ cache'.head # id
                /\ cache'.tail # id
                /\ \A other \in DOMAIN cache'.chunks :
                     /\ cache'.chunks[other].prev # id
                     /\ cache'.chunks[other].next # id
         ELSE cache' = cache]_vars

RECURSIVE SizeOfNodes(_, _)
\* The sum of the recorded sizes of the nodes of c with the given ids.
SizeOfNodes(c, ids) ==
  IF ids = {} THEN 0
  ELSE LET id == CHOOSE x \in ids : TRUE
       IN  c.chunks[id].size + SizeOfNodes(c, ids \ {id})

\* ---------------------------------------------------------------------------
\* C22: when evict_lru(target) returns, it has freed at least target bytes or
\* the cache is empty; it only removed entries, the eviction counter grew by
\* the number of entries removed and the bytes in use fell by the sum of
\* their recorded sizes.
C22_EvictUntilTargetOrEmpty ==
  [][last'.op = "evict_lru" =>
       /\ last'.ok \/ cache'.chunks = <<>>
       /\ DOMAIN cache'.chunks \subseteq DOMAIN cache.chunks
       /\ cache'.stats.evictions = cache.stats.evictions
            + Cardinality(DOMAIN cache.chunks \ DOMAIN cache'.chunks)
       /\ cache'.stats.memory_usage_bytes = cache.stats.memory_usage_bytes
            - SizeOfNodes(cache, DOMAIN cache.chunks \ DOMAIN cache'.chunks)]_vars


\* ---------------------------------------------------------------------------
\* C23: get_memory_pressure() is 0 on an empty cache, and after an insert has
\* completed it is strictly positive and the cache accounts for a chunk,
\* whatever the estimated size of the inserted chunk.
C23_PressureAfterInsert ==
  [][/\ cache'.chunks = <<>> => GetMemoryPressure(cache') = 0
     /\ last'.op = "insert" =>
          /\ GetMemoryPressure(cache') > 0
          /\ cache'.chunks # <<>>
          /\ cache'.stats.current_chunks > 0]_vars


\* ---------------------------------------------------------------------------
\* C24: total_chunks equals the number of records in the primary table: a
\* store_chunk, update_chunk or delete_chunk call that succeeds from a state
\* where the two agree leaves them in agreement, also when the id is already
\* stored.
C24_TotalChunksCountsRecords ==
  [][/\ sres'.op \in {"store_chunk", "update_chunk", "delete_chunk"}
     /\ sres'.ok \/ sres'.op = "delete_chunk"
     /\ storage.metadata.total_chunks = Cardinality(DOMAIN storage.chunks_tree)
     => storage'.metadata.total_chunks = Cardinality(DOMAIN storage'.chunks_tree)]_vars


\* Some framework or pattern index list of st holds chunk_id.
Indexed(st, chunk_id) ==
  \/ \E tag \in DOMAIN st.framework_index : InSeq(st.framework_index[tag], chunk_id)
  \/ \E tag \in DOMAIN st.pattern_index : InSeq(st.pattern_index[tag], chunk_id)

\* ---------------------------------------------------------------------------
\* C25: delete_chunk(id) returns true exactly when a primary record for id
\* existed; afterwards get_chunk(id) is None, no index list holds id and
\* total_chunks is one less.  When it returns false the store is unchanged.
C25_DeletePurges ==
  [][sres'.op = "delete_chunk" =>
       LET id == sres'.arg
       IN  /\ sres'.ok <=> id \in DOMAIN storage.chunks_tree
           /\ sres'.ok =>
                /\ GetChunk(storage', id).ok
                /\ ~GetChunk(storage', id).some
                /\ ~Indexed(storage', id)
                /\ storage'.metadata.total_chunks = storage.metadata.total_chunks - 1
           /\ ~sres'.ok => storage' = storage]_vars



\* chunk_id is in the list of tag in index exactly when tags holds tag.
IndexedExactly(index, tags, chunk_id) ==
  /\ \A tag \in DOMAIN index : InSeq(index[tag], chunk_id) <=> InSeq(tags, tag)
  /\ \A i \in 1..Len(tags) : tags[i] \in DOMAIN index

\* ---------------------------------------------------------------------------
\* C26: after an update_chunk(c') that returned Ok, for an id stored before
\* under other framework or pattern tags, get_chunk(id) returns c' and the
\* id is in the index lists of the tags of c' and in no other index list.
C26_UpdateReindexes ==
  [][/\ sres'.op = "update_chunk"
     /\ sres'.ok
     /\ sres'.arg \in DOMAIN durable
     /\ durable[sres'.arg].ok
     /\ \/ durable[sres'.arg].chunk.metadata.frameworks
              # durable'[sres'.arg].chunk.metadata.frameworks
        \/ durable[sres'.arg].chunk.metadata.patterns
              # durable'[sres'.arg].chunk.metadata.patterns
     => LET id == sres'.arg
            updated == durable'[id].chunk
            got == GetChunk(storage', id)
        IN  /\ got.ok
            /\ got.some
            /\ got.chunk = updated
            /\ IndexedExactly(storage'.framework_index, updated.metadata.frameworks, id)
            /\ IndexedExactly(storage'.pattern_index, updated.metadata.patterns, id)]_vars


(***************************************************************************)
(* The engine with its optimize operation.                                 *)
(***************************************************************************)
\* Chunks of distinct ids, one of them tagged with nextjs and laravel.
RebuildChunks ==
  {LearningChunk(1, "Pattern", "Code", <<"export">>, 0, "nextjs", <<"nextjs", "laravel">>, <<>>, NoEmbedding, 0),
   LearningChunk(2, "Pattern", "Code", <<"export">>, 0, "vue", <<"vue">>, <<"hook">>, NoEmbedding, 0),
   LearningChunk(3, "Pattern", "Code", <<"const">>, 0, "vue", <<"vue", "nextjs">>, <<>>, NoEmbedding, 0)}

\* engine.optimize()
EngineOptimize ==
  \E r \in {Optimize(engine, storage)} :
    /\ storage' = r.st
    /\ engine' = r.eng
    /\ eres' = [op |-> "optimize", arg |-> NoneId, ok |-> TRUE, err |-> NoString,
                id |-> NoneId, chunks |-> <<>>]
    /\ UNCHANGED <<cache, accepted>>

RebuildNext ==
  \/ \E chunk \in RebuildChunks :
       /\ EngineStore(chunk, "none")
       /\ engine'.stats.disk_writes <= MaxStores
       /\ UNCHANGED beyondEngine
  \/ EngineOptimize /\ UNCHANGED beyondEngine

\* The engine's store_chunk and optimize.
RebuildSpec == Init /\ [][RebuildNext]_vars

\* ---------------------------------------------------------------------------
\* C27: after engine.optimize() the relationship graph lists every stored
\* chunk under each of its frameworks, and get_nextjs_laravel_patterns
\* returns what it returned before the call.
C27_RebuildReconstructs ==
  [][eres'.op = "optimize" =>
       /\ \A id \in DOMAIN storage'.chunks_tree \cap DOMAIN accepted :
            \A i \in 1..Len(accepted[id].metadata.frameworks) :
              LET framework == accepted[id].metadata.frameworks[i]
                  graph == engine'.analyzer.framework_graph
              IN  /\ framework \in DOMAIN graph
                  /\ InSeq(graph[framework].primary_chunks, id)
       /\ GetNextjsLaravelPatterns(engine'.analyzer)
            = GetNextjsLaravelPatterns(engine.analyzer)]_vars


(***************************************************************************)
(* evict_lru, one loop iteration at a time.                                *)
(***************************************************************************)
\* The largest target is above the bytes a full cache can hold.
EvictTargets == {1, MaxSizeBytes, 2 * MaxSizeBytes}

\* cache.evict_lru(target) is called.
EvictBegin(target) ==
  /\ ~evict.running
  /\ evict' = [running |-> TRUE, target |-> target, freed |-> 0]
  /\ UNCHANGED <<cache, now, last>>

\* The loop condition is evaluated and the body runs once, or the loop is
\* left and evict_lru returns freed_bytes.
EvictIterate ==
  /\ evict.running
  /\ \E r \in {EvictIteration(cache, evict.freed, evict.target)} :
       /\ cache' = r.c
       /\ evict' = [evict EXCEPT !.running = ~r.done, !.freed = r.freed]
       /\ last' = IF r.done THEN [op |-> "evict_lru", ok |-> r.freed >= evict.target]
                            ELSE last
  /\ UNCHANGED now

\* What the evict_lru loop leaves alone.
beyondEvict == <<lruHist, storeVars, engineVars, simres, stack, held, procs>>

EvictNext ==
  \/ \E chunk \in CacheChunks :
       ~evict.running /\ CacheInsert(chunk) /\ UNCHANGED <<lruHist, beyondCache>>
  \/ \E id \in CacheIds :
       ~evict.running /\ CacheRemove(id) /\ UNCHANGED <<lruHist, beyondCache>>
  \/ \E target \in EvictTargets : EvictBegin(target) /\ UNCHANGED beyondEvict
  \/ EvictIterate /\ UNCHANGED beyondEvict

\* The cache with evict_lru running to its return once it was called.
EvictSpec == Init /\ [][EvictNext]_vars /\ WF_<<cache, last, evict>>(EvictIterate)

\* ---------------------------------------------------------------------------
\* C28: every call of evict_lru returns, whatever the state of the cache
\* (a stale tail pointer included) and whatever the target (one above the
\* bytes cached included).
C28_EvictTerminates == evict.running ~> ~evict.running

\* evict_lru has returned short of its target from a cache that still holds
\* a chunk: it left the loop on a tail pointer that names no cached chunk.
C28_Witness ==
  /\ ~evict.running
  /\ last.op = "evict_lru"
  /\ evict.freed > 0
  /\ evict.freed < evict.target
  /\ cache.chunks # <<>>
  /\ cache.tail \notin DOMAIN cache.chunks


\* The score of the component that a similarity type names.
ComponentScore(sc, similarity_type) ==
  IF similarity_type = "Semantic" THEN sc.semantic
  ELSE IF similarity_type = "Structural" THEN sc.structural
  ELSE IF similarity_type = "Framework" THEN sc.framework
  ELSE sc.content

\* ---------------------------------------------------------------------------
\* C29: the similarity type of every match names a component whose score is
\* the greatest of the four; when the chunk or the match has no embedding the
\* type is not Semantic, and it is Content when the content score is the
\* greatest.
C29_DominantKind ==
  simres.op = "find_similar" =>
    \A i \in 1..Len(simres.matches) :
      LET match == simres.matches[i]
          sc == Scores(simres.chunk, match.chunk)
          max_score == Max(Max(Max(sc.content, sc.structural), sc.semantic), sc.framework)
      IN  /\ ComponentScore(sc, match.similarity_type) = max_score
          /\ ~simres.chunk.embedding.some \/ ~match.chunk.embedding.some =>
               /\ match.similarity_type # "Semantic"
               /\ sc.content = max_score => match.similarity_type = "Content"


(***************************************************************************)
(* The store read through get_recent_chunks.                               *)
(***************************************************************************)
\* Code chunks that differ in id and in last_accessed, and Data chunks, whose
\* records do not decode.
RecentChunks == WarmupChunks \cup {create_data_chunk(id, "vue") : id \in 1..3}

\* storage.get_recent_chunks(limit)
StorageGetRecent(limit) ==
  /\ sres' = [op |-> "get_recent_chunks", arg |-> limit, ok |-> TRUE,
              chunks |-> GetRecentChunks(storage, limit)]
  /\ UNCHANGED <<storage, durable>>

RecentNext ==
  \/ \E chunk \in RecentChunks :
       StorageStore(chunk, "none") /\ UNCHANGED <<stored, beyondStorage>>
  \/ \E limit \in 1..2 : StorageGetRecent(limit) /\ UNCHANGED <<stored, beyondStorage>>

\* Chunks written to the store and read back most recent first.
RecentSpec == Init /\ [][RecentNext]_vars

\* ---------------------------------------------------------------------------
\* C30: get_recent_chunks(limit) returns Ok whatever records do not decode;
\* it returns at most limit chunks, each the decoded record of its id, in
\* descending order of last_accessed.
C30_RecentSkipsUndecodable ==
  [][sres'.op = "get_recent_chunks" =>
       /\ sres'.ok
       /\ Len(sres'.chunks) <= sres'.arg
       /\ \A i \in 1..Len(sres'.chunks) :
            /\ GetChunk(storage, sres'.chunks[i].id).ok
            /\ GetChunk(storage, sres'.chunks[i].id).some
            /\ GetChunk(storage, sres'.chunks[i].id).chunk = sres'.chunks[i]
       /\ \A i \in 1..(Len(sres'.chunks) - 1) :
            sres'.chunks[i].metadata.last_accessed
              >= sres'.chunks[i + 1].metadata.last_accessed]_vars

\* get_recent_chunks has passed over a record that does not decode and has
\* returned two chunks that differ in last_accessed, the later one from the
\* smaller key.
C30_Witness ==
  /\ sres.op = "get_recent_chunks"
  /\ Len(sres.chunks) = 2
  /\ sres.chunks[1].metadata.last_accessed > sres.chunks[2].metadata.last_accessed
  /\ sres.chunks[1].id < sres.chunks[2].id
  /\ \E id \in DOMAIN storage.chunks_tree :
       /\ ~GetChunk(storage, id).ok
       /\ id > sres.chunks[1].id


(***************************************************************************)
(* The store with calls that end between the primary write and the index  *)
(* writes.                                                                 *)
(***************************************************************************)
\* storage.delete_chunk(&id) that removes the record and returns Err before
\* an index list is rewritten.
StorageDeleteInterrupted(id) ==
  /\ id \in DOMAIN storage.chunks_tree
  /\ storage' = DeleteChunkInterrupted(storage, id)
  /\ sres' = [op |-> "delete_chunk_err", arg |-> id, ok |-> FALSE, chunks |-> <<>>]
  /\ durable' = MapRemove(durable, id)

CrashNext ==
  \/ StorageNext
  \/ \E id \in StorageIds :
       StorageDeleteInterrupted(id) /\ UNCHANGED <<stored, beyondStorage>>

\* The store, with store_chunk, update_chunk and delete_chunk also ending
\* after their primary write.
CrashSpec == Init /\ [][CrashNext]_vars

\* An index list names an id that has no primary record.
Dangling(st) == \E id \in StorageIds : Indexed(st, id) /\ id \notin DOMAIN st.chunks_tree

\* A call has ended between its primary write and its index writes and its
\* effect is still there: a dangling index entry, or a record written by a
\* store_chunk or update_chunk that returned Err.
Interrupted ==
  \/ Dangling(storage)
  \/ \E id \in DOMAIN durable : ~durable[id].ok

\* ---------------------------------------------------------------------------
\* C31: with the effect of an interrupted store_chunk, update_chunk or
\* delete_chunk in the store, get_chunks_by_framework and
\* get_chunks_by_pattern return Ok, and every chunk they return has a
\* primary record.
C31_DanglingTolerated ==
  /\ sres.op \in {"get_chunks_by_framework", "get_chunks_by_pattern"}
  /\ Interrupted
  => /\ sres.ok
     /\ \A i \in 1..Len(sres.chunks) : sres.chunks[i].id \in DOMAIN storage.chunks_tree


\* ---------------------------------------------------------------------------
\* C36: every chunk that get_chunks_by_framework(f) returns lists f among
\* its frameworks, and every chunk that get_chunks_by_pattern(p) returns
\* lists p among its patterns, whatever store_chunk, update_chunk and
\* delete_chunk calls came before.
C36_IndexSound ==
  /\ sres.op = "get_chunks_by_framework" =>
       \A i \in 1..Len(sres.chunks) : InSeq(sres.chunks[i].metadata.frameworks, sres.arg)
  /\ sres.op = "get_chunks_by_pattern" =>
       \A i \in 1..Len(sres.chunks) : InSeq(sres.chunks[i].metadata.patterns, sres.arg)


RECURSIVE EstimatedSizeOfNodes(_, _)
\* The sum of estimated_size() of the chunks of c held under the given ids.
EstimatedSizeOfNodes(c, ids) ==
  IF ids = {} THEN 0
  ELSE LET id == CHOOSE x \in ids : TRUE
       IN  EstimatedSize(c.chunks[id].chunk) + EstimatedSizeOfNodes(c, ids \ {id})

\* ---------------------------------------------------------------------------
\* C37: in sequential use memory_usage_bytes is the sum of estimated_size()
\* of the chunks in the map, also after an insert has replaced the chunk of
\* a cached id by one of another size.
C37_BytesAccounted ==
  cache.stats.memory_usage_bytes = EstimatedSizeOfNodes(cache, DOMAIN cache.chunks)


(***************************************************************************)
(* The cache called by concurrent tasks.                                   *)
(***************************************************************************)
\* Two small chunks: a cache that holds both is within its limits.
ConcIds == {1, 2}

ConcChunks == {create_test_chunk(id, 0) : id \in ConcIds}

\* No call is in progress.
Quiescent == \A task \in Tasks : procs[task].pc = "idle"

\* A task calls an operation of the cache.
ConcBegin(task, call) ==
  /\ procs[task].pc = "idle"
  /\ procs' = [procs EXCEPT ![task] = call]
  /\ UNCHANGED <<cache, now, last>>

\* A task runs the next lock scope of its call.  The calls are followed
\* while the cache is within its limits, where enforce_limits is one read of
\* the counters.
ConcStep(task) ==
  /\ procs[task].pc # "idle"
  /\ procs[task].pc = "enforce_limits" => EnforceLimits(cache) = cache
  /\ \E r \in {CacheStep(cache, procs[task], now)} :
       /\ cache' = r.c
       /\ procs' = [procs EXCEPT ![task] = r.p]
  /\ UNCHANGED <<now, last>>

\* The gets started so far stay within the bound of the counters.
GetsWithin ==
  cache.stats.hits + cache.stats.misses
    + Cardinality({task \in Tasks : procs[task].pc = "get"}) < MaxCount

\* What the concurrent calls leave alone.
beyondConc == <<lruHist, storeVars, engineVars, simres, stack, held, evict>>

ListNext ==
  \/ \E task \in Tasks, chunk \in ConcChunks :
       ConcBegin(task, CacheCall("insert", chunk.id, chunk)) /\ UNCHANGED beyondConc
  \/ \E task \in Tasks, id \in ConcIds :
       GetsWithin /\ ConcBegin(task, CacheCall("get", id, NoneId)) /\ UNCHANGED beyondConc
  \/ \E task \in Tasks : ConcStep(task) /\ UNCHANGED beyondConc

\* Concurrent insert and get calls.
ListSpec == Init /\ [][ListNext]_vars

\* ---------------------------------------------------------------------------
\* C32: when every concurrent insert and get call has completed on a cache
\* within its limits, following next from head visits every mapped id
\* exactly once and ends at tail, and the head node has no prev.
C32_ListAfterConcurrentCalls ==
  Quiescent =>
    LET l == ListFrom(cache, cache.head, Cardinality(DOMAIN cache.chunks) + 1)
    IN  /\ Len(l) = Cardinality(DOMAIN cache.chunks)
        /\ {l[i] : i \in 1..Len(l)} = DOMAIN cache.chunks
        /\ l # <<>> => /\ cache.tail = l[Len(l)]
                       /\ cache.chunks[cache.head].prev = NoneId
        /\ l = <<>> => cache.tail = NoneId


CountNext ==
  \/ \E task \in Tasks, chunk \in ConcChunks :
       ConcBegin(task, CacheCall("insert", chunk.id, chunk)) /\ UNCHANGED beyondConc
  \/ \E task \in Tasks, id \in ConcIds :
       ConcBegin(task, CacheCall("remove", id, NoneId)) /\ UNCHANGED beyondConc
  \/ \E task \in Tasks :
       ConcBegin(task, CacheCall("clear", NoneId, NoneId)) /\ UNCHANGED beyondConc
  \/ \E task \in Tasks : ConcStep(task) /\ UNCHANGED beyondConc

\* Concurrent insert, remove and clear calls.
CountSpec == Init /\ [][CountNext]_vars

\* ---------------------------------------------------------------------------
\* C38: whenever no cache operation is in flight, current_chunks is the
\* number of entries of the map, whatever the interleaving of the concurrent
\* insert, remove and clear calls before.
C38_CountAtQuiescence ==
  Quiescent => cache.stats.current_chunks = Cardinality(DOMAIN cache.chunks)

(***************************************************************************)
(* The store under concurrent store_chunk calls: every tree operation of   *)
(* a call is a step, and the steps of the calls in progress interleave.    *)
(***************************************************************************)
\* Two chunks with distinct ids that share the framework tag "react" and
\* the pattern tag "export-function".
SharedTagChunks == {create_storage_test_chunk(id, "react") : id \in StorageIds}

\* The calls of a history are counted as they begin.
StoresBegun ==
  storage.metadata.total_chunks
    + Cardinality({task \in Tasks : procs[task].pc \notin {"idle", "save_metadata"}})

\* A task calls storage.store_chunk(&chunk).
StoreBegin(task, chunk) ==
  /\ procs[task].pc = "idle"
  /\ StoresBegun < MaxStores
  /\ procs' = [procs EXCEPT ![task] = StoreCall(chunk)]
  /\ UNCHANGED <<storage, sres, durable, stored>>

\* The call of a task runs its next tree operation; the last one returns Ok.
StoreTaskStep(task) ==
  /\ procs[task].pc # "idle"
  /\ \E r \in {StoreStep(storage, procs[task])} :
       /\ storage' = r.st
       /\ procs' = [procs EXCEPT ![task] = r.p]
       /\ IF r.p.pc = "idle"
            THEN /\ stored' = stored \cup {procs[task].chunk}
                 /\ sres' = [op |-> "store_chunk", arg |-> procs[task].chunk.id,
                             ok |-> TRUE, chunks |-> <<>>]
            ELSE UNCHANGED <<stored, sres>>
       /\ durable' = IF procs[task].pc = "store_chunk"
                       THEN MapInsert(durable, procs[task].chunk.id,
                                      [chunk |-> procs[task].chunk, ok |-> TRUE])
                       ELSE durable

\* What the concurrent store calls leave alone.
beyondStores == <<cacheVars, lruHist, engineVars, simres, stack, held, evict>>

StoresNext ==
  \/ \E task \in Tasks, chunk \in SharedTagChunks :
       StoreBegin(task, chunk) /\ UNCHANGED beyondStores
  \/ \E task \in Tasks : StoreTaskStep(task) /\ UNCHANGED beyondStores
  \/ /\ Quiescent
     /\ StorageGetByFramework("react")
     /\ UNCHANGED <<stored, procs, beyondStores>>

StoresSpec == Init /\ [][StoresNext]_vars

\* C33: when no store_chunk call is in progress, the index list of a tag
\* holds the id of every chunk with that tag that store_chunk returned Ok
\* for, and a get_chunks_by_framework answered then returns each of those
\* chunks.
C33_NoLostIndexUpdate ==
  Quiescent =>
    /\ \A chunk \in stored :
         /\ \A i \in 1..Len(chunk.metadata.frameworks) :
              /\ chunk.metadata.frameworks[i] \in DOMAIN storage.framework_index
              /\ InSeq(storage.framework_index[chunk.metadata.frameworks[i]], chunk.id)
         /\ \A i \in 1..Len(chunk.metadata.patterns) :
              /\ chunk.metadata.patterns[i] \in DOMAIN storage.pattern_index
              /\ InSeq(storage.pattern_index[chunk.metadata.patterns[i]], chunk.id)
    /\ sres.op = "get_chunks_by_framework" =>
         /\ sres.ok
         /\ \A chunk \in Tagged(sres.arg) : InSeq(sres.chunks, chunk)

(***************************************************************************)
(* The engine under concurrent store_chunk calls for one id.               *)
(***************************************************************************)
\* Id 1 with two bodies.
SameIdChunks == {chunk \in EngineChunks : chunk.id = 1}

\* The engine store calls begun so far.
EngineStoresBegun ==
  storage.metadata.total_chunks
    + Cardinality({task \in Tasks : procs[task].pc = "store_chunk"})

\* A task calls engine.store_chunk(chunk).
EngineStoreBegin(task, chunk) ==
  /\ procs[task].pc = "idle"
  /\ EngineStoresBegun < MaxStores
  /\ procs' = [procs EXCEPT ![task] = EngineStoreCall(chunk)]
  /\ UNCHANGED <<engine, storage, cache, eres, accepted, durable>>

\* The call of a task runs its next step; the last one returns Ok(id).
EngineStoreTaskStep(task) ==
  /\ procs[task].pc # "idle"
  /\ \E r \in {EngineStoreStep(engine, storage, cache, procs[task], now)} :
       /\ CountersWithin(r.c)
       /\ engine' = r.eng
       /\ storage' = r.st
       /\ cache' = r.c
       /\ procs' = [procs EXCEPT ![task] = r.p]
       /\ durable' = IF procs[task].pc = "store_chunk"
                       THEN MapInsert(durable, procs[task].chunk.id,
                                      [chunk |-> procs[task].chunk, ok |-> TRUE])
                       ELSE durable
       /\ IF r.p.pc = "idle"
            THEN /\ eres' = [op |-> "store_chunk", arg |-> procs[task].chunk, ok |-> TRUE,
                             err |-> NoString, id |-> procs[task].chunk.id,
                             chunks |-> <<>>]
                 /\ accepted' = MapInsert(accepted, procs[task].chunk.id, procs[task].chunk)
            ELSE UNCHANGED <<eres, accepted>>

\* What the concurrent engine store calls leave alone.
beyondCoherence == <<now, last, lruHist, sres, stored, simres, stack, held, evict>>

CoherenceNext ==
  \/ \E task \in Tasks, chunk \in SameIdChunks :
       EngineStoreBegin(task, chunk) /\ UNCHANGED beyondCoherence
  \/ \E task \in Tasks : EngineStoreTaskStep(task) /\ UNCHANGED beyondCoherence

CoherenceSpec == Init /\ [][CoherenceNext]_vars

\* C34: when no engine.store_chunk call is in progress, every chunk the
\* cache holds equals the record the store holds for its id, so that a
\* get_chunk answered from the cache and Storage.get_chunk return the same
\* chunk.
C34_CacheCoherent ==
  Quiescent =>
    \A id \in DOMAIN cache.chunks :
      LET r == GetChunk(storage, id)
      IN  /\ r.ok
          /\ r.some
          /\ cache.chunks[id].chunk = r.chunk

(***************************************************************************)
(* The cache's lock guards under concurrent tasks.  A task in a call is    *)
(* [pc |-> "running", stack, held]: its async call stack and the guards it *)
(* holds; a parking_lot guard is taken when no task holds the lock (a      *)
(* reader waits behind a writer and a writer behind a reader).             *)
(***************************************************************************)
\* The pub async fns of LruCache.
CacheOperations ==
  {"LruCache::insert", "LruCache::get", "LruCache::remove", "LruCache::clear",
   "LruCache::evict_lru", "LruCache::cleanup_expired"}

\* The guards the tasks hold.
Taken == UNION {procs[task].held : task \in {o \in Tasks : procs[o].pc = "running"}}

\* The lock whose guard the call p is about to take (NoString if its next
\* step is not one that takes a guard).
WaitsFor(p) ==
  IF p.pc = "running"
       /\ Steps[p.stack[Len(p.stack)].fn][p.stack[Len(p.stack)].pc].k = "acq"
    THEN Steps[p.stack[Len(p.stack)].fn][p.stack[Len(p.stack)].pc].a
    ELSE NoString

\* What the call p can be after its next step while the guards of taken are
\* held: nothing if the step takes a guard of a lock in taken.
GuardSteps(p, taken) ==
  LET top == p.stack[Len(p.stack)]
      step == Steps[top.fn][top.pc]
      goto(pc) == [p.stack EXCEPT ![Len(p.stack)].pc = pc]
  IN  CASE step.k = "acq" ->
             IF step.a \in taken THEN {}
             ELSE {[p EXCEPT !.held = @ \cup {step.a}, !.stack = goto(top.pc + 1)]}
        [] step.k = "rel" ->
             {[p EXCEPT !.held = @ \ {step.a}, !.stack = goto(top.pc + 1)]}
        [] step.k = "call" ->
             {[p EXCEPT !.stack = Append(@, [fn |-> step.a, pc |-> 1])]}
        [] step.k = "await" -> {[p EXCEPT !.stack = goto(top.pc + 1)]}
        [] step.k = "jmp" -> {[p EXCEPT !.stack = goto(pc)] : pc \in step.a}
        [] step.k = "ret" ->
             IF Len(p.stack) = 1 THEN {Idle}
             ELSE {[p EXCEPT !.stack = [SubSeq(@, 1, Len(@) - 1) EXCEPT
                                          ![Len(p.stack) - 1].pc = @ + 1]]}

\* A task calls an operation of the cache.
GuardBegin(task, fn) ==
  /\ procs[task].pc = "idle"
  /\ procs' = [procs EXCEPT ![task] =
                 [pc |-> "running", stack |-> <<[fn |-> fn, pc |-> 1]>>, held |-> {}]]

\* A task runs the next step of its call.
GuardAdvance(task) ==
  /\ procs[task].pc = "running"
  /\ \E p \in GuardSteps(procs[task], Taken) : procs' = [procs EXCEPT ![task] = p]

\* What the guards of the tasks leave alone.
beyondLocks == <<cacheVars, lruHist, storeVars, engineVars, simres, stack, held, evict>>

LockNext ==
  \/ \E task \in Tasks, fn \in CacheOperations :
       GuardBegin(task, fn) /\ UNCHANGED beyondLocks
  \/ \E task \in Tasks : GuardAdvance(task) /\ UNCHANGED beyondLocks

LockSpec == Init /\ [][LockNext]_vars

\* The tasks of waiting each wait for a guard that a task of waiting holds.
Deadlocked(waiting) ==
  /\ waiting # {}
  /\ \A task \in waiting :
       /\ WaitsFor(procs[task]) # NoString
       /\ \E holder \in waiting :
            /\ procs[holder].pc = "running"
            /\ WaitsFor(procs[task]) \in procs[holder].held

\* C35: no set of tasks running operations of the cache is deadlocked; a
\* task that takes a guard while it holds another holds the guard of the
\* map alone and takes the guard of the stats; and a task that holds the
\* guard of head or of tail holds no other guard.
C35_DeadlockFree ==
  /\ \A waiting \in SUBSET Tasks : ~Deadlocked(waiting)
  /\ \A task \in Tasks :
       procs[task].pc = "running" =>
         /\ (WaitsFor(procs[task]) # NoString /\ procs[task].held # {}) =>
              /\ procs[task].held = {"cache.chunks"}
              /\ WaitsFor(procs[task]) = "cache.stats"
         /\ procs[task].held \subseteq {"cache.chunks", "cache.stats"}
              \/ procs[task].held \in {{"cache.head"}, {"cache.tail"}}

\* A task in insert holds the guards of the map and of the stats while
\* another, in remove, waits for the guard of the map.
C35_Witness ==
  \E task \in Tasks, other \in Tasks :
    /\ procs[task].pc = "running"
    /\ procs[task].stack[1].fn = "LruCache::insert"
    /\ procs[task].held = {"cache.chunks", "cache.stats"}
    /\ procs[other].pc = "running"
    /\ procs[other].stack[1].fn = "LruCache::remove"
    /\ WaitsFor(procs[other]) = "cache.chunks"

====
